---- MODULE Spec2Model ----
(***************************************************************************)
(* Model of the timetable scraper: the scrape orchestrator runScrape       *)
(* (src/scripts/scrape-core.ts), the store it writes (src/scripts/db.ts),  *)
(* the lecturer name extractor (src/scripts/lecturer-utils.ts) and the     *)
(* day/date resolver (src/utils.ts).                                       *)
(*                                                                         *)
(* Text is modelled as a sequence of one-character strings, so that case   *)
(* folding, trimming and splitting are computed and not assumed.           *)
(***************************************************************************)
EXTENDS Integers, Sequences, FiniteSets, TLC

(***************************************************************************)
(* Characters and elementary string functions                              *)
(***************************************************************************)

LowerLetters ==
    <<"a", "b", "c", "d", "e", "f", "g", "h", "i", "j", "k", "l", "m",
      "n", "o", "p", "q", "r", "s", "t", "u", "v", "w", "x", "y", "z">>

UpperLetters ==
    <<"A", "B", "C", "D", "E", "F", "G", "H", "I", "J", "K", "L", "M",
      "N", "O", "P", "Q", "R", "S", "T", "U", "V", "W", "X", "Y", "Z">>

IndexIn(c, letters) == CHOOSE i \in 1..Len(letters) : letters[i] = c

UpperSet ==
    {"A", "B", "C", "D", "E", "F", "G", "H", "I", "J", "K", "L", "M",
     "N", "O", "P", "Q", "R", "S", "T", "U", "V", "W", "X", "Y", "Z"}
LowerSet ==
    {"a", "b", "c", "d", "e", "f", "g", "h", "i", "j", "k", "l", "m",
     "n", "o", "p", "q", "r", "s", "t", "u", "v", "w", "x", "y", "z"}

IsUpper(c) == c \in UpperSet
IsLower(c) == c \in LowerSet
IsLetter(c) == IsUpper(c) \/ IsLower(c)
IsDigit(c) == c \in {"0", "1", "2", "3", "4", "5", "6", "7", "8", "9"}
IsSpace(c) == c = " "
\* the regex class \w
IsWordChar(c) == IsLetter(c) \/ IsDigit(c) \/ c = "_"

\* String.prototype.toLowerCase and toUpperCase on one character
LowerOf == [c \in UpperSet |-> LowerLetters[IndexIn(c, UpperLetters)]]
UpperOf == [c \in LowerSet |-> UpperLetters[IndexIn(c, LowerLetters)]]
LowerChar(c) == IF IsUpper(c) THEN LowerOf[c] ELSE c
UpperChar(c) == IF IsLower(c) THEN UpperOf[c] ELSE c

\* s.toLowerCase()
toLowerCase(s) == [i \in 1..Len(s) |-> LowerChar(s[i])]

RECURSIVE TrimLeft(_)
TrimLeft(s) ==
    IF s # <<>> /\ IsSpace(Head(s)) THEN TrimLeft(Tail(s)) ELSE s

RECURSIVE TrimRight(_)
TrimRight(s) ==
    IF s # <<>> /\ IsSpace(s[Len(s)])
    THEN TrimRight(SubSeq(s, 1, Len(s) - 1))
    ELSE s

\* s.trim()
Trim(s) == TrimRight(TrimLeft(s))

\* s.replace(/\s+,/g, ","): white space standing before a comma is removed
RECURSIVE SpaceCommaFix(_)
SpaceCommaFix(s) ==
    IF s = <<>> THEN <<>>
    ELSE IF IsSpace(Head(s))
         THEN LET rest == TrimLeft(s)
              IN  IF rest # <<>> /\ Head(rest) = ","
                  THEN SpaceCommaFix(rest)
                  ELSE <<Head(s)>> \o SpaceCommaFix(Tail(s))
         ELSE <<Head(s)>> \o SpaceCommaFix(Tail(s))

\* s.replace(/,\s+/g, ", "): white space following a comma becomes one space
RECURSIVE CommaSpaceFix(_)
CommaSpaceFix(s) ==
    IF s = <<>> THEN <<>>
    ELSE IF Head(s) = "," /\ Len(s) > 1 /\ IsSpace(s[2])
         THEN <<",", " ">> \o CommaSpaceFix(TrimLeft(Tail(s)))
         ELSE <<Head(s)>> \o CommaSpaceFix(Tail(s))

\* s.replace(/\s+/g, " "): every run of white space becomes one space
RECURSIVE CollapseSpaces(_)
CollapseSpaces(s) ==
    IF s = <<>> THEN <<>>
    ELSE IF IsSpace(Head(s))
         THEN <<" ">> \o CollapseSpaces(TrimLeft(s))
         ELSE <<Head(s)>> \o CollapseSpaces(Tail(s))

\* s.split(sep) for a one-character separator: a sequence of pieces
RECURSIVE SplitOn(_, _)
SplitOn(s, sep) ==
    IF \E i \in 1..Len(s) : s[i] = sep
    THEN LET i == CHOOSE k \in 1..Len(s) :
                     s[k] = sep /\ \A j \in 1..(k - 1) : s[j] # sep
         IN  <<SubSeq(s, 1, i - 1)>> \o SplitOn(SubSeq(s, i + 1, Len(s)), sep)
    ELSE <<s>>

\* pieces.join(glue)
RECURSIVE Join(_, _)
Join(pieces, glue) ==
    IF pieces = <<>> THEN <<>>
    ELSE IF Len(pieces) = 1 THEN pieces[1]
    ELSE pieces[1] \o glue \o Join(Tail(pieces), glue)

\* s.includes(w)
Includes(s, w) ==
    \E i \in 1..(Len(s) - Len(w) + 1) : SubSeq(s, i, i + Len(w) - 1) = w

\* w is a prefix of s, compared case-insensitively (the regex flag i)
StartsWithI(s, w) ==
    /\ Len(s) >= Len(w)
    /\ toLowerCase(SubSeq(s, 1, Len(w))) = toLowerCase(w)

(***************************************************************************)
(* Lecturer name extraction (src/scripts/lecturer-utils.ts)                *)
(***************************************************************************)

LECTURER_EXCLUSION_KEYWORDS ==
    { <<"t", "b", "c">>,
      <<"v", "a", "c", "a", "n", "t">>,
      <<"a", "v", "a", "i", "l", "a", "b", "l", "e">>,
      <<"n", "o", "t", " ", "s", "e", "t">>,
      <<"w", "e", "e", "k">>,
      <<"t", "e", "r", "m">>,
      <<"s", "e", "s", "s", "i", "o", "n">>,
      <<"m", "o", "d", "u", "l", "e">>,
      <<"l", "e", "c", "t", "u", "r", "e">>,
      <<"g", "r", "o", "u", "p">>,
      <<"s", "l", "o", "t">>,
      <<"e", "n", "c", ".">>,
      <<"c", "c">> }

\* the characters after which titleCaseSegment capitalises a letter
TitleCasePrefix == {" ", ",", ".", "'", "-"}

titleCaseSegment(segment) ==
    LET lower == toLowerCase(segment)
    IN  [i \in 1..Len(lower) |->
            IF IsLower(lower[i]) /\ (i = 1 \/ lower[i - 1] \in TitleCasePrefix)
            THEN UpperChar(lower[i])
            ELSE lower[i]]

normaliseLecturerName(name) ==
    LET trimmed == Trim(name)
        hasMixedCase == /\ \E i \in 1..Len(trimmed) : IsLower(trimmed[i])
                        /\ \E i \in 1..Len(trimmed) : IsUpper(trimmed[i])
        segments == SplitOn(trimmed, ",")
        titled == [i \in 1..Len(segments) |-> titleCaseSegment(Trim(segments[i]))]
    IN  IF hasMixedCase
        THEN CommaSpaceFix(SpaceCommaFix(trimmed))
        ELSE SpaceCommaFix(Join(titled, <<",", " ">>))

\* raw.replace(/\(.*?\)/g, " "): each "(" up to the nearest ")" becomes a space
RECURSIVE RemoveParens(_)
RemoveParens(s) ==
    IF s = <<>> THEN <<>>
    ELSE IF Head(s) = "(" /\ \E k \in 2..Len(s) : s[k] = ")"
         THEN LET k == CHOOSE j \in 2..Len(s) :
                          s[j] = ")" /\ \A h \in 2..(j - 1) : s[h] # ")"
              IN  <<" ">> \o RemoveParens(SubSeq(s, k + 1, Len(s)))
         ELSE <<Head(s)>> \o RemoveParens(Tail(s))

\* length of the separator (?:\/|&amp;|&|\band\b) found at position k, else 0
NameSeparatorAt(s, k) ==
    IF s[k] = "/" THEN 1
    ELSE IF k + 4 <= Len(s) /\ SubSeq(s, k, k + 4) = <<"&", "a", "m", "p", ";">> THEN 5
    ELSE IF s[k] = "&" THEN 1
    ELSE IF /\ k + 2 <= Len(s)
            /\ toLowerCase(SubSeq(s, k, k + 2)) = <<"a", "n", "d">>
            /\ (k = 1 \/ ~IsWordChar(s[k - 1]))
            /\ (k + 3 > Len(s) \/ ~IsWordChar(s[k + 3]))
         THEN 3
    ELSE 0

\* length of the separator ; found at position k, else 0
SemicolonAt(s, k) == IF s[k] = ";" THEN 1 ELSE 0

\* s.split(/\s*(?:\/|&amp;|&|\band\b)\s*/gi): white space around a separator
\* goes with it
RECURSIVE SplitNames(_)
SplitNames(s) ==
    IF \E k \in 1..Len(s) : NameSeparatorAt(s, k) > 0
    THEN LET k == CHOOSE j \in 1..Len(s) :
                     /\ NameSeparatorAt(s, j) > 0
                     /\ \A h \in 1..(j - 1) : NameSeparatorAt(s, h) = 0
             before == TrimRight(SubSeq(s, 1, k - 1))
             after == TrimLeft(SubSeq(s, k + NameSeparatorAt(s, k), Len(s)))
         IN  <<before>> \o SplitNames(after)
    ELSE <<s>>

\* piece.split(/\s*;\s*/g)
RECURSIVE SplitSemicolon(_)
SplitSemicolon(s) ==
    IF \E k \in 1..Len(s) : SemicolonAt(s, k) > 0
    THEN LET k == CHOOSE j \in 1..Len(s) :
                     /\ SemicolonAt(s, j) > 0
                     /\ \A h \in 1..(j - 1) : SemicolonAt(s, h) = 0
             before == TrimRight(SubSeq(s, 1, k - 1))
             after == TrimLeft(SubSeq(s, k + 1, Len(s)))
         IN  <<before>> \o SplitSemicolon(after)
    ELSE <<s>>

\* pieces.flatMap(piece => piece.split(/\s*;\s*/g))
RECURSIVE FlatSplitSemicolon(_)
FlatSplitSemicolon(pieces) ==
    IF pieces = <<>> THEN <<>>
    ELSE SplitSemicolon(Head(pieces)) \o FlatSplitSemicolon(Tail(pieces))

\* the class [-\u2013\u2014]: hyphen, en dash and em dash (written as tokens)
IsDash(c) == c \in {"-", "endash", "emdash"}

RECURSIVE StripLeadingDashes(_)
StripLeadingDashes(s) ==
    IF s # <<>> /\ IsDash(Head(s)) THEN StripLeadingDashes(Tail(s)) ELSE s

RECURSIVE StripTrailingDashes(_)
StripTrailingDashes(s) ==
    IF s # <<>> /\ IsDash(s[Len(s)])
    THEN StripTrailingDashes(SubSeq(s, 1, Len(s) - 1))
    ELSE s

\* s.replace(/^WORD:?\s*/i, "")
StripPrefixWord(s, word) ==
    IF StartsWithI(s, word)
    THEN LET rest == SubSeq(s, Len(word) + 1, Len(s))
             noColon == IF rest # <<>> /\ Head(rest) = ":" THEN Tail(rest) ELSE rest
         IN  TrimLeft(noColon)
    ELSE s

\* the chain of replace calls applied to one candidate
CleanCandidate(candidate) ==
    Trim(CommaSpaceFix(SpaceCommaFix(
        StripPrefixWord(
            StripPrefixWord(
                StripTrailingDashes(StripLeadingDashes(candidate)),
                <<"L", "e", "c", "t", "u", "r", "e", "r">>),
            <<"T", "u", "t", "o", "r">>))))

\* what one candidate adds to the result: a sequence of zero or one name
CandidateName(candidate) ==
    LET cleaned == CleanCandidate(candidate)
        lower == toLowerCase(cleaned)
        normal == normaliseLecturerName(cleaned)
    IN  IF cleaned = <<>> THEN <<>>
        ELSE IF \E kw \in LECTURER_EXCLUSION_KEYWORDS : Includes(lower, kw) THEN <<>>
        ELSE IF \E i \in 1..Len(cleaned) : IsDigit(cleaned[i]) THEN <<>>
        ELSE IF ~\E i \in 1..Len(cleaned) : IsLetter(cleaned[i]) THEN <<>>
        ELSE IF ~\E i \in 1..Len(cleaned) : cleaned[i] = "," \/ IsSpace(cleaned[i])
             THEN <<>>
        ELSE IF Len(normal) < 3 \/ Len(normal) > 80 THEN <<>>
        ELSE <<normal>>

\* results.add for each candidate in order: a Set keeps first insertions
RECURSIVE CollectNames(_, _)
CollectNames(candidates, results) ==
    IF candidates = <<>> THEN results
    ELSE LET found == CandidateName(Head(candidates))
             next == IF found = <<>> \/ \E i \in 1..Len(results) : results[i] = found[1]
                     THEN results
                     ELSE results \o found
         IN  CollectNames(Tail(candidates), next)

extractLecturerNames(raw) ==
    LET compact == Trim(CollapseSpaces(RemoveParens(raw)))
        candidates == FlatSplitSemicolon(SplitNames(compact))
    IN  IF raw = <<>> THEN <<>>
        ELSE IF compact = <<>> THEN <<>>
        ELSE CollectNames(candidates, <<>>)

(***************************************************************************)
(* Day/date resolver (src/utils.ts).  A calendar date is a day number;     *)
(* day number 0 is a Sunday.                                               *)
(***************************************************************************)

daysOfWeek ==
    <<"Sunday", "Monday", "Tuesday", "Wednesday", "Thursday", "Friday", "Saturday">>

\* daysOfWeek.indexOf(dayName): -1 when absent
indexOfDay(dayName) ==
    IF \E i \in 1..Len(daysOfWeek) : daysOfWeek[i] = dayName
    THEN (CHOOSE i \in 1..Len(daysOfWeek) : daysOfWeek[i] = dayName) - 1
    ELSE -1

\* if (targetDayOfWeek === -1) throw new Error("Invalid day name")
ThrowsInvalidDayName(dayName) == indexOfDay(dayName) = -1

\* variant: a target that is today's weekday resolves to next week
getNextOccurrenceOfDay_NextWeek(dayName, now) ==
    LET daysToAdd == indexOfDay(dayName) - (now % 7)
    IN  IF daysToAdd <= 0 THEN now + daysToAdd + 7
        ELSE now + daysToAdd

\* getNextOccurrenceOfDay(dayName) when startOfToday() is the date now
getNextOccurrenceOfDay(dayName, now) ==
    LET todayDayOfWeek == now % 7
        targetDayOfWeek == indexOfDay(dayName)
        daysToAdd == targetDayOfWeek - todayDayOfWeek
    IN  IF daysToAdd < 0 THEN now + daysToAdd + 7
        ELSE IF daysToAdd = 0 THEN now
        ELSE now + daysToAdd

(***************************************************************************)
(* The store (src/scripts/db.ts): the content of one database file         *)
(***************************************************************************)

MAX_ATTEMPTS == 3

\* the content of a path at which no file exists
NoFile == [missing |-> TRUE]

\* the schema created by initializeDatabase on a new file: every table empty
\* (scrape_log is kept in id order; seq_* are the AUTOINCREMENT counters)
initializeDatabase ==
    [ events |-> {},
      scrape_log |-> <<>>,
      lecturers |-> {},
      event_lecturers |-> {},
      scrape_metadata |-> <<>>,
      seq_events |-> 0,
      seq_lecturers |-> 0 ]

\* INSERT OR IGNORE INTO scrape_log ... VALUES (?, ?, ?, 'pending'):
\* room_name is UNIQUE; attempts and events_found default to 0
insertScrapeLog(db, roomName) ==
    IF \E j \in 1..Len(db.scrape_log) : db.scrape_log[j].room_name = roomName
    THEN db
    ELSE [db EXCEPT !.scrape_log =
             Append(@, [ room_name |-> roomName, status |-> "pending",
                         attempts |-> 0, error_message |-> "null",
                         events_found |-> 0 ])]

\* insertMany(rooms): one insertScrapeLog per room of the CSV, in order
RECURSIVE insertMany(_, _)
insertMany(db, rooms) ==
    IF rooms = <<>> THEN db
    ELSE insertMany(insertScrapeLog(db, Head(rooms)), Tail(rooms))

\* INSERT OR REPLACE INTO scrape_metadata (key, value): last writer wins
putMetadata(db, key, value) ==
    LET others == SelectSeq(db.scrape_metadata, LAMBDA m : m.key # key)
    IN  [db EXCEPT !.scrape_metadata = Append(others, [key |-> key, value |-> value])]

\* variant: the attempts bound alone, without the status filter
IsEligible_AnyStatus(row) ==
    row.attempts < MAX_ATTEMPTS

IsEligible(row) ==
    row.status \in {"pending", "failed"} /\ row.attempts < MAX_ATTEMPTS

\* the eligible rows with a given number of attempts, in id order
PendingWithAttempts(db, n) ==
    SelectSeq(db.scrape_log, LAMBDA row : IsEligible(row) /\ row.attempts = n)

\* getPendingRooms.all(MAX_ATTEMPTS): status pending or failed, attempts below
\* the bound, ORDER BY attempts ASC, id ASC
RECURSIVE PendingFrom(_, _)
PendingFrom(db, n) ==
    IF n >= MAX_ATTEMPTS THEN <<>>
    ELSE PendingWithAttempts(db, n) \o PendingFrom(db, n + 1)

getPendingRooms(db) ==
    LET rows == PendingFrom(db, 0)
    IN  [j \in 1..Len(rows) |->
            [room_name |-> rows[j].room_name, attempts |-> rows[j].attempts]]

\* variant: the update leaves events_found as it was
updateScrapeLog_KeepFound(db, status, errorMessage, eventsFound, roomName) ==
    [db EXCEPT !.scrape_log =
        [j \in 1..Len(@) |->
            IF @[j].room_name = roomName
            THEN [@[j] EXCEPT !.status = status,
                              !.attempts = @ + 1,
                              !.error_message = errorMessage]
            ELSE @[j]]]

\* UPDATE scrape_log SET status = ?, attempts = attempts + 1,
\* error_message = ?, events_found = ? WHERE room_name = ?
updateScrapeLog(db, status, errorMessage, eventsFound, roomName) ==
    [db EXCEPT !.scrape_log =
        [j \in 1..Len(@) |->
            IF @[j].room_name = roomName
            THEN [@[j] EXCEPT !.status = status,
                              !.attempts = @ + 1,
                              !.error_message = errorMessage,
                              !.events_found = eventsFound]
            ELSE @[j]]]

\* the scrape_log row of a room
LogRow(db, roomName) ==
    db.scrape_log[CHOOSE j \in 1..Len(db.scrape_log) :
                      db.scrape_log[j].room_name = roomName]

HasLogRow(db, roomName) ==
    \E j \in 1..Len(db.scrape_log) : db.scrape_log[j].room_name = roomName

\* UNIQUE(room_name, start_time, end_time, module_raw) of the events table
SameEventKey(e, f) ==
    /\ e.room_name = f.room_name
    /\ e.start_time = f.start_time
    /\ e.end_time = f.end_time
    /\ e.module_raw = f.module_raw

\* variant: a plain INSERT into a table without the UNIQUE constraint
insertEvent_NoUnique(db, rowid, entry) ==
    LET id == db.seq_events + 1
    IN  [ db |-> [db EXCEPT !.events = @ \cup
                     {[ id |-> id,
                        room_name |-> entry.room_name,
                        day |-> entry.day,
                        start_time |-> entry.start_time,
                        end_time |-> entry.end_time,
                        module_raw |-> entry.module_raw,
                        lecturer_raw |-> entry.lecturer ]},
                              !.seq_events = id],
          rowid |-> id ]

\* INSERT OR IGNORE INTO events: the result is the store and the connection's
\* last insert rowid, which an ignored insert leaves as it was
insertEvent(db, rowid, entry) ==
    IF \E e \in db.events : SameEventKey(e, entry)
    THEN [db |-> db, rowid |-> rowid]
    ELSE LET id == db.seq_events + 1
         IN  [ db |-> [db EXCEPT !.events = @ \cup
                          {[ id |-> id,
                             room_name |-> entry.room_name,
                             day |-> entry.day,
                             start_time |-> entry.start_time,
                             end_time |-> entry.end_time,
                             module_raw |-> entry.module_raw,
                             lecturer_raw |-> entry.lecturer ]},
                                   !.seq_events = id],
               rowid |-> id ]

\* INSERT OR IGNORE INTO lecturers (name, name_lower): the schema declares
\* name UNIQUE and name_lower only NOT NULL
insertLecturer(db, rowid, name, nameLower) ==
    IF \E l \in db.lecturers : l.name = name
    THEN [db |-> db, rowid |-> rowid]
    ELSE LET id == db.seq_lecturers + 1
         IN  [ db |-> [db EXCEPT !.lecturers = @ \cup
                          {[id |-> id, name |-> name, name_lower |-> nameLower]},
                                   !.seq_lecturers = id],
               rowid |-> id ]

\* SELECT id FROM lecturers WHERE name_lower = ? (.get: the first row, which
\* the index on name_lower yields in rowid order); 0 stands for undefined
getLecturerId(db, nameLower) ==
    LET ids == {l.id : l \in {m \in db.lecturers : m.name_lower = nameLower}}
    IN  IF ids = {} THEN 0
        ELSE CHOOSE id \in ids : \A other \in ids : id <= other

\* INSERT OR IGNORE INTO event_lecturers (event_id, lecturer_id): the pair is
\* the primary key; event_id REFERENCES events(id), and a reference to a
\* missing event is a constraint failure that OR IGNORE does not absorb
insertEventLecturer(db, rowid, eventId, lecturerId) ==
    IF \E x \in db.event_lecturers :
           x.event_id = eventId /\ x.lecturer_id = lecturerId
    THEN [db |-> db, rowid |-> rowid, failed |-> FALSE]
    ELSE IF ~\E e \in db.events : e.id = eventId
    THEN [db |-> db, rowid |-> rowid, failed |-> TRUE]
    ELSE LET id == Cardinality(db.event_lecturers) + 1
         IN  [ db |-> [db EXCEPT !.event_lecturers = @ \cup
                          {[rowid |-> id, event_id |-> eventId,
                            lecturer_id |-> lecturerId]}],
               rowid |-> id, failed |-> FALSE ]

\* lecturer fields: a field with two names "Ab, C & D, e", the first of them
\* in another mixed case "aB, C", and an empty field
LecTwo == <<"A", "b", ",", " ", "C", " ", "&", " ", "D", ",", " ", "e">>
LecaBC == <<"a", "B", ",", " ", "C">>
LecNone == <<>>
LecturerFields == {LecTwo, LecaBC, LecNone}

\* the body of the per-name loop of insertEvents, for the names still to do:
\* insertLecturer, getLecturerId and insertEventLecturer for each name
RECURSIVE LinkLecturers(_, _, _, _)
LinkLecturers(db, rowid, eventId, names) ==
    IF names = <<>> THEN [db |-> db, rowid |-> rowid, failed |-> FALSE]
    ELSE LET name == Head(names)
             nameLower == toLowerCase(name)
             ins == insertLecturer(db, rowid, name, nameLower)
             lecturerId == getLecturerId(ins.db, nameLower)
             link == IF lecturerId # 0
                     THEN insertEventLecturer(ins.db, ins.rowid, eventId, lecturerId)
                     ELSE [db |-> ins.db, rowid |-> ins.rowid, failed |-> FALSE]
         IN  IF link.failed THEN link
             ELSE LinkLecturers(link.db, link.rowid, eventId, Tail(names))

\* the names the lecturer loop runs over for an entry whose event insert
\* returned eventId: none when the field is empty or the id is 0
\* (extract is extractLecturerNames as a function of the lecturer field)
NamesToLink(entry, eventId, extract) ==
    IF entry.lecturer # <<>> /\ eventId # 0
    THEN extract[entry.lecturer]
    ELSE <<>>

\* one iteration of the loop over entries inside the insertEvents transaction
InsertEntry(db, rowid, entry, extract) ==
    LET result == insertEvent(db, rowid, entry)
        eventId == result.rowid
    IN  LinkLecturers(result.db, result.rowid, eventId,
                      NamesToLink(entry, eventId, extract))

\* insertEvents(entries): the loop over the entries, stopped by the first
\* statement that throws
RECURSIVE insertEvents(_, _, _, _)
insertEvents(db, rowid, list, extract) ==
    IF list = <<>> THEN [db |-> db, rowid |-> rowid, failed |-> FALSE]
    ELSE LET done == InsertEntry(db, rowid, Head(list), extract)
         IN  IF done.failed THEN done
             ELSE insertEvents(done.db, done.rowid, Tail(list), extract)

\* lecturerSet.add(nameLower) for the first n names of a sequence
LowerNames(names, n) == {toLowerCase(names[j]) : j \in 1..n}

(***************************************************************************)
(* Pages served by the timetable site, and scrapeRoomTimeTable             *)
(***************************************************************************)

\* the outcome of the HTTP fetch: ok is false for a network error or a
\* non-2xx status, else blocks are the classified blocks of the page
FetchFailed == [ok |-> FALSE, blocks |-> <<>>]
Fetched(page) == [ok |-> TRUE, blocks |-> page]

\* the entry pushed for one block whose time and module were resolved:
\* both halves of the time are combined with the resolved date of the day
EntryOf(block, roomName, now) ==
    LET dayDate == getNextOccurrenceOfDay(block.day, now)
    IN  [ room_name |-> roomName,
          day |-> block.day,
          time |-> block.time,
          module_raw |-> block.module,
          lecturer |-> block.lecturer,
          start_time |-> <<dayDate, block.time[1]>>,
          end_time |-> <<dayDate, block.time[2]>> ]

\* scrapeRoomTimeTable(roomUrl, roomName): a failed fetch (network error or
\* non-2xx status) throws inside the try block, whose catch logs the error;
\* the function then returns the output collected so far, which is empty
\* (threw says whether the call rejects, error is what it rejects with)
scrapeRoomTimeTable(response, roomName, now) ==
    IF ~response.ok
    THEN [threw |-> FALSE, error |-> "null", entries |-> <<>>]
    ELSE [ threw |-> FALSE, error |-> "null",
           entries |-> [j \in 1..Len(response.blocks) |->
                           EntryOf(response.blocks[j], roomName, now)] ]

(***************************************************************************)
(* Bounds and inputs of the model                                          *)
(***************************************************************************)

\* number of runScrape calls in a behaviour
MaxRuns == 3
\* last calendar day reached (behaviours start on day 1, a Monday)
MaxDay == 2
\* number of blocks on one page
MaxEntries == 2
\* number of ingestions into one store
MaxIngests == 2

\* ./out/rooms_grouped.csv: the room names, in file order
RoomList == <<"CM034", "CM035">>
Rooms == {RoomList[j] : j \in 1..Len(RoomList)}

Slot9 == <<"09:00", "10:00">>

\* classified blocks of a page: day, time, module and lecturer lines
Blocks ==
    { [day |-> "Monday", time |-> Slot9, module |-> "CO2401 - SD", lecturer |-> LecTwo],
      [day |-> "Monday", time |-> Slot9, module |-> "CO2401 - SD", lecturer |-> LecaBC],
      [day |-> "Monday", time |-> Slot9, module |-> "CO3808 - WD", lecturer |-> LecNone] }

SeqsUpTo(S, n) == UNION {[1..m -> S] : m \in 0..n}

\* the pages a fetch can return, and the outcomes of a fetch
Pages == SeqsUpTo(Blocks, MaxEntries)
Responses == {Fetched(page) : page \in Pages} \cup {FetchFailed}
\* a site that fails or serves a page of at most one block
SmallResponses == {Fetched(page) : page \in SeqsUpTo(Blocks, 1)} \cup {FetchFailed}
\* the outcomes a fetch can have on a site of a given kind
ResponsesOf(kind) == IF kind = "small" THEN SmallResponses ELSE Responses

\* messages of the errors a statement of the store can throw
DbErrors == {"SQLITE_IOERR"}
ForeignKeyError == "FOREIGN KEY constraint failed"

(***************************************************************************)
(* State                                                                   *)
(***************************************************************************)

VARIABLES
    today,          \* the current calendar date (day number)
    dbFile,         \* committed content of data/events.db, or NoFile
    archives,       \* archive date |-> identity of data/events_<date>.db
    pc,             \* position of runScrape
    conn,           \* the store as the writer connection sees it
    lastInsertRowid,\* last insert rowid of the writer connection
    pendingRooms,   \* result of the last getPendingRooms query
    i,              \* index of the for loop over pendingRooms
    entries,        \* entries returned by the current scrapeRoomTimeTable
    k,              \* index of the entry the transaction is at
    stats,          \* ScrapeStats of the run
    lecturerSet,    \* lowercased names seen by the run
    readerView,     \* rows of events last read by a read-only connection
    runsLeft,       \* number of runScrape calls still to come
    site,           \* kind of timetable site: which pages a fetch can return
    pass,           \* history: number of the pass of the while loop
    fetches,        \* history: room |-> scrapeRoomTimeTable calls in this run
    failures,       \* history: room |-> attempts of this run that ended in catch
    lastError,      \* history: room |-> error of the last attempt that failed
    lastFetch,      \* history: room |-> outcome of the last fetch of this run
    attemptEntries, \* history: room |-> entries of the attempt in progress or
                    \* of the attempt that succeeded in this run
    generation,     \* identity of the file at data/events.db: the number of
                    \* the run that created it, 0 when there is none
    repeats,        \* history: how many times in a row the last ingestion
                    \* repeated a committed ingestion of the same entries
    extracted,      \* extractLecturerNames as a table: lecturer field |-> names
    everCompleted,  \* history: a runScrape call has reached its end
    arg,            \* argument of the function called on its own
    ret,            \* what that call returned, once it has returned
    inflight,       \* history: rooms whose fetch has started and not settled
    slept,          \* history: what the run has slept since the last attempt
                    \* ended, in units of delayMs
    lecturerCache,  \* the stored lecturer cache, or NoCache
    inflightBuild,  \* the rebuild whose promise is stored, 0 for null
    clock,          \* Date.now() of the server, and NODE_ENV
    requests,       \* the requests that called getLecturerCache
    builds,         \* history: the outcome of each buildLecturerCache call
    isScraping,     \* the flag of the force-scrape router
    lastScrapeStatus, \* the status object of the force-scrape router
    awaitedBy,      \* which trigger awaits the run in progress, "none" if none
    triggerLog      \* history: the runScrape calls whose end the triggers
                    \* have not handled yet, and the last trigger

vars ==
    << today, dbFile, archives, pc, conn, lastInsertRowid, pendingRooms, i,
       entries, k, stats, lecturerSet, readerView, runsLeft, site, pass,
       fetches, failures, lastError, lastFetch, attemptEntries, generation,
       repeats, extracted, everCompleted, arg, ret, inflight, slept,
       lecturerCache, inflightBuild, clock, requests, builds,
       isScraping, lastScrapeStatus, awaitedBy, triggerLog >>

\* the state of the lecturers router and of the force-scrape router
cacheVars == <<lecturerCache, inflightBuild, clock, requests, builds>>
triggerVars == <<isScraping, lastScrapeStatus, awaitedBy, triggerLog>>
serverVars == <<cacheVars, triggerVars>>

\* let lecturerCache: LecturerCache | null = null (build: the rebuild that
\* produced the cache, 0 when there is none)
NoCache == [generatedAt |-> 0, build |-> 0]

\* number of requests that call getLecturerCache
MaxRequests == 3
\* number of times the clock is advanced
MaxTicks == 2

\* what a request receives: the cache a rebuild produced, or its error
NoResult == [build |-> 0, error |-> FALSE]
CacheOf(b) == [build |-> b, error |-> FALSE]
BuildError == [build |-> 0, error |-> TRUE]

NoRequest ==
    [state |-> "none", forceRefresh |-> FALSE, fresh |-> FALSE,
     arrivedDuring |-> 0, awaits |-> 0, result |-> NoResult]

\* the initial value of lastScrapeStatus
IdleStatus ==
    [status |-> "idle", startedAt |-> 0, completedAt |-> 0, error |-> "null"]

NoTrigger == [unsettled |-> 0, during |-> FALSE, started |-> FALSE, response |-> "none"]

\* the module state of the two routers when the server process starts
ServerBoot(nodeEnv) ==
    /\ lecturerCache = NoCache
    /\ inflightBuild = 0
    /\ clock = [now |-> 0, ticks |-> 0, nodeEnv |-> nodeEnv]
    /\ requests = [q \in 1..MaxRequests |-> NoRequest]
    /\ builds = <<>>
    /\ isScraping = FALSE
    /\ lastScrapeStatus = IdleStatus
    /\ awaitedBy = "none"
    /\ triggerLog = NoTrigger

\* no function has been called on its own, or the call has not returned
NotCalled == [called |-> FALSE, threw |-> FALSE, value |-> <<>>]
NoArg == [none |-> TRUE]

NoStats == [total |-> 0, success |-> 0, failed |-> 0, eventsInserted |-> 0,
            lecturersFound |-> 0]

\* the state before any run: no database file, no archive, no process
RunBoot ==
    /\ today = 1
    /\ dbFile = NoFile
    /\ archives = <<>>
    /\ pc = "idle"
    /\ conn = NoFile
    /\ lastInsertRowid = 0
    /\ pendingRooms = <<>>
    /\ i = 0
    /\ entries = <<>>
    /\ k = 0
    /\ stats = NoStats
    /\ lecturerSet = {}
    /\ readerView = {}
    /\ pass = 0
    /\ fetches = [r \in Rooms |-> 0]
    /\ failures = [r \in Rooms |-> 0]
    /\ lastError = [r \in Rooms |-> "null"]
    /\ lastFetch = [r \in Rooms |-> "none"]
    /\ attemptEntries = [r \in Rooms |-> <<>>]
    /\ generation = 0
    /\ repeats = 0
    /\ extracted = [raw \in LecturerFields |-> extractLecturerNames(raw)]
    /\ everCompleted = FALSE
    /\ ret = NotCalled
    /\ inflight = {}
    /\ slept = 0

Boot == RunBoot /\ ServerBoot("production")

\* several runs, which may crash, over a site that serves small pages
Init ==
    /\ Boot
    /\ runsLeft = MaxRuns
    /\ site = "small"
    /\ arg = NoArg

(***************************************************************************)
(* rotateDatabase (src/scripts/db.ts)                                      *)
(***************************************************************************)

\* the identity given to a file that is created: one not in use
NewFileId(file, arch) ==
    LET used == {file} \cup {arch[d] : d \in DOMAIN arch}
    IN  1 + CHOOSE m \in used : \A other \in used : other <= m

\* variant: the rename is done whether or not the archive exists
rotateDatabase_Overwrite(exists, file, arch, now) ==
    IF exists
    THEN ((now - 1) :> file) @@ arch
    ELSE arch

\* rotateDatabase(): events.db is renamed to events_<yesterday>.db unless an
\* archive of that name exists, in which case events.db is unlinked
\* (exists: events.db exists; file: its identity; arch: the archives)
rotateDatabase(exists, file, arch, now) ==
    IF exists
    THEN LET archivePath == now - 1
         IN  IF archivePath \notin DOMAIN arch
             THEN (archivePath :> file) @@ arch
             ELSE arch
    ELSE arch

(***************************************************************************)
(* runScrape (src/scripts/scrape-core.ts)                                  *)
(***************************************************************************)

\* the room of the current iteration of the for loop
room == pendingRooms[i]

ZeroPerRoom == [r \in Rooms |-> 0]

\* steps 1 and 2: rotate the old database, initialize a fresh one
runScrapeStart ==
    /\ pc \in {"idle", "done"}
    /\ runsLeft > 0
    /\ archives' = rotateDatabase(dbFile # NoFile, generation, archives, today)
    /\ dbFile' = initializeDatabase
    /\ conn' = initializeDatabase
    /\ lastInsertRowid' = 0
    /\ pc' = "populate"
    /\ runsLeft' = runsLeft - 1
    /\ pass' = 0
    /\ fetches' = ZeroPerRoom
    /\ failures' = ZeroPerRoom
    /\ lastError' = [r \in Rooms |-> "null"]
    /\ lastFetch' = [r \in Rooms |-> "none"]
    /\ attemptEntries' = [r \in Rooms |-> <<>>]
    /\ generation' = NewFileId(generation, archives)
    /\ pendingRooms' = <<>>
    /\ i' = 0
    /\ entries' = <<>>
    /\ k' = 0
    /\ stats' = NoStats
    /\ lecturerSet' = {}
    /\ UNCHANGED <<today, readerView, site, repeats, extracted, everCompleted, arg, ret, inflight, slept>>

\* runScrape is called by the command line script
StartRun == runScrapeStart /\ UNCHANGED serverVars

\* variant: the fetches of all the rooms from idx on are started together
fetchStarted_All(pending, idx) == {pending[j].room_name : j \in idx..Len(pending)}

\* the fetch the loop body starts for the room at idx and awaits:
\* await scrapeRoomTimeTable(room.room_url, room.room_name)
fetchStarted(pending, idx) ==
    IF idx <= Len(pending) THEN {pending[idx].room_name} ELSE {}

\* variant: sleep(delayMs) follows every room, the last of a pass included
sleepUnits_AfterEveryRoom(idx, len, retryLen) ==
    1 + (IF idx >= len /\ retryLen > 0 THEN 2 ELSE 0)

\* what is slept after the room at idx of a pass of len rooms, in units of
\* delayMs: sleep(delayMs) unless the room is the last of the pass, and
\* sleep(delayMs * 2) after the pass when retryLen rooms are left to retry
sleepUnits(idx, len, retryLen) ==
    IF idx < len THEN 1
    ELSE IF retryLen > 0 THEN 2
    ELSE 0

\* steps 3 to 5 up to the first getPendingRooms query: the scrape log is
\* populated, scrape_started is written, stats are reset
PopulateScrapeLog ==
    /\ pc = "populate"
    /\ LET logged == insertMany(conn, RoomList)
           started == putMetadata(logged, "scrape_started", today)
           pending == getPendingRooms(started)
       IN  /\ conn' = started
           /\ dbFile' = started
           /\ lastInsertRowid' = Len(started.scrape_metadata)
           /\ pendingRooms' = pending
           /\ pc' = IF Len(pending) > 0 THEN "scrape" ELSE "finish"
           /\ pass' = IF Len(pending) > 0 THEN 1 ELSE 0
           /\ inflight' = fetchStarted(pending, 1)
    /\ i' = 1
    /\ stats' = [NoStats EXCEPT !.total = Len(RoomList)]
    /\ lecturerSet' = {}
    /\ UNCHANGED <<today, archives, entries, k, readerView, runsLeft, site, fetches,
                   failures, lastError, lastFetch, attemptEntries, generation, repeats, extracted, everCompleted, arg, ret, slept, serverVars>>

\* variant: a single pass over the rooms, without the query for retries
NextRoom_SinglePass(db) ==
    IF i < Len(pendingRooms)
    THEN /\ i' = i + 1
         /\ pc' = "scrape"
         /\ inflight' = (inflight \ {room.room_name}) \cup fetchStarted(pendingRooms, i + 1)
         /\ slept' = sleepUnits(i, Len(pendingRooms), 0)
         /\ UNCHANGED <<pendingRooms, pass>>
    ELSE /\ pendingRooms' = <<>>
         /\ i' = 1
         /\ pc' = "finish"
         /\ pass' = pass
         /\ inflight' = inflight \ {room.room_name}
         /\ slept' = sleepUnits(i, Len(pendingRooms), 0)

\* the end of one iteration of the for loop, the store being db: the next
\* room of the pass, or the next getPendingRooms query and the while test
NextRoom(db) ==
    IF i < Len(pendingRooms)
    THEN /\ i' = i + 1
         /\ pc' = "scrape"
         /\ inflight' = (inflight \ {room.room_name}) \cup fetchStarted(pendingRooms, i + 1)
         /\ slept' = sleepUnits(i, Len(pendingRooms), 0)
         /\ UNCHANGED <<pendingRooms, pass>>
    ELSE LET pending == getPendingRooms(db)
         IN  /\ pendingRooms' = pending
             /\ i' = 1
             /\ pc' = IF Len(pending) > 0 THEN "scrape" ELSE "finish"
             /\ pass' = IF Len(pending) > 0 THEN pass + 1 ELSE pass
             /\ inflight' = (inflight \ {room.room_name}) \cup fetchStarted(pending, 1)
             /\ slept' = sleepUnits(i, Len(pendingRooms), Len(pending))

\* variant: the test on the attempts read before the update
Exhausted_Stale(attempts) == attempts >= MAX_ATTEMPTS

\* room.attempts + 1 >= MAX_ATTEMPTS: the failing attempt was the last one
Exhausted(attempts) == attempts + 1 >= MAX_ATTEMPTS

\* variant: every statement is committed as it runs (no transaction)
InTransaction_Autocommit(committed, working) == working

\* db.transaction(...): what is committed after a statement of the function
\* has run on the working store; nothing new before the function returns
InTransaction(committed, working) == committed

\* the catch branch of the loop body for an error thrown in the try block;
\* a transaction in progress has been rolled back to the committed store
CatchBranch(errorMsg) ==
    LET exhausted == Exhausted(room.attempts)
        logged == updateScrapeLog(dbFile,
                                  IF exhausted THEN "failed" ELSE "pending",
                                  errorMsg, 0, room.room_name)
    IN  /\ dbFile' = logged
        /\ conn' = logged
        /\ stats' = IF exhausted THEN [stats EXCEPT !.failed = @ + 1] ELSE stats
        /\ failures' = [failures EXCEPT ![room.room_name] = @ + 1]
        /\ lastError' = [lastError EXCEPT ![room.room_name] = errorMsg]
        /\ attemptEntries' = [attemptEntries EXCEPT ![room.room_name] = <<>>]
        /\ NextRoom(logged)

\* await scrapeRoomTimeTable(room.room_url, room.room_name)
ScrapeRoom ==
    /\ pc = "scrape"
    /\ \E response \in ResponsesOf(site) :
         LET result == scrapeRoomTimeTable(response, room.room_name, today)
         IN  /\ fetches' = [fetches EXCEPT ![room.room_name] = @ + 1]
             /\ lastFetch' = [lastFetch EXCEPT ![room.room_name] =
                                 IF response.ok THEN "ok" ELSE "failed"]
             /\ IF result.threw
                THEN /\ CatchBranch(result.error)
                     /\ UNCHANGED <<entries, k>>
                ELSE /\ entries' = result.entries
                     /\ k' = 1
                     /\ pc' = "insert"
                     /\ attemptEntries' =
                            [attemptEntries EXCEPT ![room.room_name] = result.entries]
                     /\ inflight' = inflight \ {room.room_name}
                     /\ slept' = 0
                     /\ UNCHANGED <<dbFile, conn, stats, failures, lastError,
                                    pendingRooms, i, pass>>
    /\ UNCHANGED <<today, archives, lastInsertRowid, lecturerSet, readerView,
                   runsLeft, site, generation, repeats, extracted, everCompleted, arg, ret, serverVars>>

\* one entry of the insertEvents transaction; a foreign key failure of the
\* link insert throws, the transaction rolls back and the catch branch runs
InsertStep ==
    /\ pc = "insert"
    /\ k <= Len(entries)
    /\ LET done == InsertEntry(conn, lastInsertRowid, entries[k], extracted)
           names == NamesToLink(entries[k],
                                insertEvent(conn, lastInsertRowid, entries[k]).rowid,
                                extracted)
       IN  /\ lastInsertRowid' = done.rowid
           /\ IF done.failed
              THEN /\ \E n \in 1..Len(names) :
                         lecturerSet' = lecturerSet \cup LowerNames(names, n)
                   /\ CatchBranch(ForeignKeyError)
                   /\ UNCHANGED <<entries, k>>
              ELSE /\ lecturerSet' = lecturerSet \cup LowerNames(names, Len(names))
                   /\ conn' = done.db
                   /\ dbFile' = InTransaction(dbFile, done.db)
                   /\ k' = k + 1
                   /\ UNCHANGED <<pc, stats, failures, lastError,
                                  pendingRooms, i, pass, entries, attemptEntries,
                                  inflight, slept>>
    /\ UNCHANGED <<today, archives, readerView, runsLeft, site, fetches,
                   lastFetch, generation, repeats, extracted, everCompleted, arg, ret, serverVars>>

\* a statement of the transaction throws a store error: rollback, catch branch
InsertError ==
    /\ pc = "insert"
    /\ k <= Len(entries)
    /\ \E errorMsg \in DbErrors : CatchBranch(errorMsg)
    /\ UNCHANGED <<today, archives, lastInsertRowid, lecturerSet, entries, k,
                   readerView, runsLeft, site, fetches, lastFetch, generation, repeats, extracted, everCompleted, arg, ret, serverVars>>

\* the transaction function returns: COMMIT
Commit ==
    /\ pc = "insert"
    /\ k > Len(entries)
    /\ dbFile' = conn
    /\ pc' = "log"
    /\ UNCHANGED <<today, archives, conn, lastInsertRowid, pendingRooms, i,
                   entries, k, stats, lecturerSet, readerView, runsLeft, site, pass,
                   fetches, failures, lastError, lastFetch, attemptEntries,
                   generation, repeats, extracted, everCompleted, arg, ret, inflight, slept, serverVars>>

\* the rest of the try block: the log row becomes success, stats are updated
UpdateLogSuccess ==
    /\ pc = "log"
    /\ LET logged == updateScrapeLog(conn, "success", "null", Len(entries),
                                     room.room_name)
       IN  /\ dbFile' = logged
           /\ conn' = logged
           /\ NextRoom(logged)
    /\ stats' = [stats EXCEPT !.success = @ + 1,
                              !.eventsInserted = @ + Len(entries)]
    /\ UNCHANGED <<today, archives, lastInsertRowid, entries, k, lecturerSet,
                   readerView, runsLeft, site, fetches, failures, lastError, lastFetch,
                   attemptEntries, generation, repeats, extracted, everCompleted, arg, ret, serverVars>>

\* after the while loop: the run metadata is written and the store closed
Finish ==
    /\ pc = "finish"
    /\ LET found == Cardinality(lecturerSet)
           m1 == putMetadata(conn, "scrape_completed", today)
           m2 == putMetadata(m1, "total_events", stats.eventsInserted)
           m3 == putMetadata(m2, "total_lecturers", found)
           m4 == putMetadata(m3, "rooms_success", stats.success)
           m5 == putMetadata(m4, "rooms_failed", stats.failed)
       IN  /\ dbFile' = m5
           /\ conn' = m5
           /\ stats' = [stats EXCEPT !.lecturersFound = found]
    /\ pc' = "done"
    /\ everCompleted' = TRUE
    /\ UNCHANGED <<today, archives, lastInsertRowid, pendingRooms, i, entries,
                   k, lecturerSet, readerView, runsLeft, site, pass, fetches, failures,
                   lastError, lastFetch, attemptEntries, generation, repeats, extracted,
                   arg, ret, inflight, slept, serverVars>>

(***************************************************************************)
(* Environment: process termination, the calendar, read-only connections   *)
(***************************************************************************)

\* a run ends before its end: its memory is lost, the file keeps what was
\* committed
runScrapeAbandoned ==
    /\ pc \notin {"idle", "done"}
    /\ pc' = "idle"
    /\ conn' = NoFile
    /\ lastInsertRowid' = 0
    /\ pendingRooms' = <<>>
    /\ i' = 0
    /\ entries' = <<>>
    /\ k' = 0
    /\ stats' = NoStats
    /\ lecturerSet' = {}
    /\ inflight' = {}
    /\ slept' = 0
    /\ UNCHANGED <<today, dbFile, archives, readerView, runsLeft, site, pass, fetches,
                   failures, lastError, lastFetch, attemptEntries, generation,
                   repeats, extracted, everCompleted, arg, ret>>

\* the process is terminated during a run
Crash == runScrapeAbandoned /\ UNCHANGED serverVars

\* midnight passes
NextDay ==
    /\ today < MaxDay
    /\ today' = today + 1
    /\ UNCHANGED <<dbFile, archives, pc, conn, lastInsertRowid, pendingRooms,
                   i, entries, k, stats, lecturerSet, readerView, runsLeft, site, pass,
                   fetches, failures, lastError, lastFetch, attemptEntries,
                   generation, repeats, extracted, everCompleted, arg, ret, inflight, slept, serverVars>>

\* isDatabaseReady(): getDatabase() finds events.db and
\* SELECT COUNT(*) FROM events is positive (file: the committed events.db)
isDatabaseReady(file) ==
    IF file = NoFile THEN FALSE
    ELSE Cardinality(file.events) > 0

\* getDatabase() and a query of one room's events on a read-only connection
ReadRoom ==
    /\ dbFile # NoFile
    /\ \E r \in Rooms : readerView' = {e \in dbFile.events : e.room_name = r}
    /\ UNCHANGED <<today, dbFile, archives, pc, conn, lastInsertRowid,
                   pendingRooms, i, entries, k, stats, lecturerSet, runsLeft, site,
                   pass, fetches, failures, lastError, lastFetch,
                   attemptEntries, generation, repeats, extracted, everCompleted, arg, ret, inflight, slept, serverVars>>

RunStep ==
    \/ PopulateScrapeLog
    \/ ScrapeRoom
    \/ InsertError
    \/ InsertStep
    \/ Commit
    \/ UpdateLogSuccess
    \/ Finish

Next ==
    \/ StartRun
    \/ RunStep
    \/ Crash
    \/ NextDay

Spec == Init /\ [][Next]_vars

\* one run of runScrape over a site that can serve every page, with readers
InitRun ==
    /\ Boot
    /\ runsLeft = 1
    /\ site = "full"
    /\ arg = NoArg

NextRun ==
    \/ StartRun
    \/ RunStep
    \/ ReadRoom

SpecRun == InitRun /\ [][NextRun]_vars

\* one run that is started and whose steps are taken as long as one is
\* enabled: the process is not terminated, every fetch and timer completes
InitTerm ==
    /\ Boot
    /\ runsLeft = 1
    /\ site = "small"
    /\ arg = NoArg

NextTerm ==
    \/ StartRun
    \/ RunStep

SpecTerm == InitTerm /\ [][NextTerm]_vars /\ WF_vars(NextTerm)

(***************************************************************************)
(* Ingestions into one store: scrapeRoomTimeTable followed by the          *)
(* insertEvents transaction, for any room and page, any number of times    *)
(***************************************************************************)

\* the store of a run that has populated its scrape log
Populated ==
    putMetadata(insertMany(initializeDatabase, RoomList), "scrape_started", 1)

InitIngest ==
    /\ arg = NoArg
    /\ today = 1
    /\ dbFile = Populated
    /\ conn = Populated
    /\ archives = <<>>
    /\ pc = "ingest"
    /\ lastInsertRowid = Len(Populated.scrape_metadata)
    /\ pendingRooms = getPendingRooms(Populated)
    /\ i = 1
    /\ entries = <<>>
    /\ k = 0
    /\ stats = [NoStats EXCEPT !.total = Len(RoomList)]
    /\ lecturerSet = {}
    /\ readerView = {}
    /\ runsLeft = 0
    /\ site = "full"
    /\ pass = 1
    /\ fetches = [r \in Rooms |-> 0]
    /\ failures = [r \in Rooms |-> 0]
    /\ lastError = [r \in Rooms |-> "null"]
    /\ lastFetch = [r \in Rooms |-> "none"]
    /\ attemptEntries = [r \in Rooms |-> <<>>]
    /\ generation = 1
    /\ repeats = 0
    /\ extracted = [raw \in LecturerFields |-> extractLecturerNames(raw)]
    /\ everCompleted = FALSE
    /\ ret = NotCalled
    /\ inflight = {}
    /\ slept = 0
    /\ ServerBoot("production")

RECURSIVE SumOver(_, _)
SumOver(f, S) ==
    IF S = {} THEN 0
    ELSE LET x == CHOOSE y \in S : TRUE IN f[x] + SumOver(f, S \ {x})

\* entries = await scrapeRoomTimeTable(...); insertEvents(entries) for one
\* room: the transaction commits, or a statement throws and it rolls back
Ingest ==
    /\ pc = "ingest"
    /\ SumOver(fetches, Rooms) < MaxIngests
    /\ \E r \in Rooms, response \in ResponsesOf(site) :
         LET result == scrapeRoomTimeTable(response, r, today)
             tx == insertEvents(conn, lastInsertRowid, result.entries, extracted)
             again == /\ result.entries # <<>>
                      /\ result.entries = entries
                      /\ attemptEntries[r] = entries
         IN  /\ entries' = result.entries
             /\ lastInsertRowid' = tx.rowid
             /\ fetches' = [fetches EXCEPT ![r] = @ + 1]
             /\ lastFetch' = [lastFetch EXCEPT ![r] =
                                 IF response.ok THEN "ok" ELSE "failed"]
             /\ IF tx.failed
                THEN /\ UNCHANGED <<dbFile, conn>>
                     /\ attemptEntries' = [attemptEntries EXCEPT ![r] = <<>>]
                     /\ repeats' = 0
                ELSE /\ dbFile' = tx.db
                     /\ conn' = tx.db
                     /\ attemptEntries' = [attemptEntries EXCEPT ![r] = result.entries]
                     /\ repeats' = IF again THEN repeats + 1 ELSE 0
    /\ UNCHANGED <<today, archives, pc, pendingRooms, i, k, stats, lecturerSet,
                   readerView, runsLeft, site, pass, failures, lastError,
                   generation, extracted, everCompleted, arg, ret, inflight, slept, serverVars>>

SpecIngest == InitIngest /\ [][Ingest]_vars

(***************************************************************************)
(* Classification of the lines of one cell (src/scraping.ts)               *)
(***************************************************************************)

AllDigits(s) == \A j \in 1..Len(s) : IsDigit(s[j])
AllLetters(s) == \A j \in 1..Len(s) : IsLetter(s[j])

\* s from position n on
From(s, n) == SubSeq(s, n, Len(s))

\* \d{1,2}:\d{2} is the whole of s
IsClock(s) ==
    \E h \in 1..2 :
        /\ Len(s) = h + 3
        /\ AllDigits(SubSeq(s, 1, h))
        /\ s[h + 1] = ":"
        /\ AllDigits(SubSeq(s, h + 2, h + 3))

\* /^\d{1,2}:\d{2}\s*-\s*\d{1,2}:\d{2}$/.test(line)
timePattern(line) ==
    \E h \in 1..2 :
        /\ Len(line) >= h + 3
        /\ IsClock(SubSeq(line, 1, h + 3))
        /\ LET rest == TrimLeft(From(line, h + 4))
           IN  /\ rest # <<>>
               /\ Head(rest) = "-"
               /\ IsClock(TrimLeft(Tail(rest)))

\* /^[A-Z]{2,4}\d{3,5}/i.test(line)
moduleCodePrefix(line) ==
    \E a \in 2..4 :
        /\ Len(line) >= a + 3
        /\ AllLetters(SubSeq(line, 1, a))
        /\ AllDigits(SubSeq(line, a + 1, a + 3))

\* the class [-â€“:] of the module pattern: the hyphen, the colon and the
\* three characters of a mis-decoded en dash (written as tokens)
ModuleSeparators == {"-", ":", "acircumflex", "euro", "ldquo"}

\* /^[A-Z]{2,4}\d{3,5}[A-Z]?\s*[-â€“:]/i.test(line)
modulePattern(line) ==
    \E a \in 2..4, d \in 3..5, o \in 0..1 :
        /\ Len(line) >= a + d + o + 1
        /\ AllLetters(SubSeq(line, 1, a))
        /\ AllDigits(SubSeq(line, a + 1, a + d))
        /\ o = 1 => IsLetter(line[a + d + 1])
        /\ LET rest == TrimLeft(From(line, a + d + o + 1))
           IN  rest # <<>> /\ Head(rest) \in ModuleSeparators

GroupPrefix == <<"(", "G", "r", "o", "u", "p", ":">>

\* line.match(/^\(Group:\s*([^\)]+)\)\s*$/i)
cohortMatch(line) ==
    /\ StartsWithI(line, GroupPrefix)
    /\ LET body == TrimRight(From(line, Len(GroupPrefix) + 1))
       IN  /\ Len(body) >= 2
           /\ body[Len(body)] = ")"
           /\ \A j \in 1..(Len(body) - 1) : body[j] # ")"

\* cohortMatch[1].trim()
cohortOf(line) ==
    LET body == TrimRight(From(line, Len(GroupPrefix) + 1))
    IN  Trim(SubSeq(body, 1, Len(body) - 1))

\* the alternatives of the first session pattern, [\s-]? written out
SessionKeywords ==
    { <<"L", "e", "c", "t", "u", "r", "e">>,
      <<"P", "r", "a", "c", "t", "i", "c", "a", "l">>,
      <<"S", "e", "m", "i", "n", "a", "r">>,
      <<"W", "o", "r", "k", "s", "h", "o", "p">>,
      <<"T", "u", "t", "o", "r", "i", "a", "l">>,
      <<"L", "a", "b">>,
      <<"P", "l", "a", "c", "e", "m", "e", "n", "t">>,
      <<"P", "r", "o", "j", "e", "c", "t">>,
      <<"E", "x", "a", "m">>,
      <<"A", "s", "s", "e", "s", "s", "m", "e", "n", "t">>,
      <<"D", "r", "o", "p", "i", "n">>,
      <<"D", "r", "o", "p", " ", "i", "n">>,
      <<"D", "r", "o", "p", "-", "i", "n">>,
      <<"N", "o", "n", "T", "e", "a", "c", "h", "i", "n", "g">>,
      <<"N", "o", "n", " ", "T", "e", "a", "c", "h", "i", "n", "g">>,
      <<"N", "o", "n", "-", "T", "e", "a", "c", "h", "i", "n", "g">> }

\* /^(Lecture|Practical|...|Drop[\s-]?in|Non[\s-]?Teaching)/i.test(line)
sessionKeywordPattern(line) == \E w \in SessionKeywords : StartsWithI(line, w)

\* w is a suffix of s, compared case-insensitively
EndsWithI(s, w) ==
    /\ Len(s) >= Len(w)
    /\ toLowerCase(From(s, Len(s) - Len(w) + 1)) = toLowerCase(w)

\* /\((On\s*Campus|Online|Hybrid)\)\s*$/i.test(line)
sessionPlacePattern(line) ==
    LET t == TrimRight(line)
    IN  \/ EndsWithI(t, <<"(", "o", "n", "l", "i", "n", "e", ")">>)
        \/ EndsWithI(t, <<"(", "h", "y", "b", "r", "i", "d", ")">>)
        \/ \E q \in 1..Len(t) :
              /\ q + 2 <= Len(t)
              /\ toLowerCase(SubSeq(t, q, q + 2)) = <<"(", "o", "n">>
              /\ toLowerCase(TrimLeft(From(t, q + 3))) = <<"c", "a", "m", "p", "u", "s", ")">>

\* the class [A-Za-z'-]
IsNameChar(c) == IsLetter(c) \/ c \in {"'", "-"}

\* /^[A-Za-z'-]+,\s*[A-Za-z'-]+/.test(line)
commaNamePattern(line) ==
    \E n \in 1..Len(line) :
        /\ \A j \in 1..n : IsNameChar(line[j])
        /\ n + 1 <= Len(line)
        /\ line[n + 1] = ","
        /\ LET rest == TrimLeft(From(line, n + 2))
           IN  rest # <<>> /\ IsNameChar(Head(rest))

\* the keywords a username must not start with
UsernameExclusions ==
    { <<"L", "e", "c", "t", "u", "r", "e">>,
      <<"P", "r", "a", "c", "t", "i", "c", "a", "l">>,
      <<"S", "e", "m", "i", "n", "a", "r">>,
      <<"W", "o", "r", "k", "s", "h", "o", "p">>,
      <<"T", "u", "t", "o", "r", "i", "a", "l">>,
      <<"L", "a", "b">>,
      <<"P", "l", "a", "c", "e", "m", "e", "n", "t">>,
      <<"P", "r", "o", "j", "e", "c", "t">>,
      <<"E", "x", "a", "m">>,
      <<"A", "s", "s", "e", "s", "s", "m", "e", "n", "t">>,
      <<"O", "n", "l", "i", "n", "e">>,
      <<"H", "y", "b", "r", "i", "d">> }

\* /^[A-Z]+[a-z]+[A-Za-z]*$/.test(line)
usernamePattern(line) ==
    /\ AllLetters(line)
    /\ \E u \in 1..Len(line) :
          /\ \A j \in 1..u : IsUpper(line[j])
          /\ u + 1 <= Len(line)
          /\ IsLower(line[u + 1])

\* the two lecturer patterns
lecturerPattern(line) ==
    \/ /\ Includes(line, <<",">>)
       /\ commaNamePattern(line)
       /\ ~IsDigit(line[1])
       /\ ~moduleCodePrefix(line)
    \/ /\ usernamePattern(line)
       /\ ~\E w \in UsernameExclusions : StartsWithI(line, w)
       /\ Len(line) >= 4
       /\ Len(line) <= 30

\* nothing classified yet: null is written as the empty string
Unclassified ==
    [time |-> <<>>, module |-> <<>>, lecturer |-> <<>>, sessionType |-> <<>>,
     groupCohort |-> <<>>]

\* variant: without the fallback that takes an unmatched line as module
classifyLine_NoFallback(fields, line) ==
    IF fields.time = <<>> /\ timePattern(line)
    THEN [fields EXCEPT !.time = line]
    ELSE IF fields.module = <<>> /\ modulePattern(line)
    THEN [fields EXCEPT !.module = line]
    ELSE IF fields.groupCohort = <<>> /\ cohortMatch(line)
    THEN [fields EXCEPT !.groupCohort = cohortOf(line)]
    ELSE IF fields.sessionType = <<>> /\ sessionKeywordPattern(line)
    THEN [fields EXCEPT !.sessionType = line]
    ELSE IF fields.sessionType = <<>> /\ sessionPlacePattern(line)
    THEN [fields EXCEPT !.sessionType = line]
    ELSE IF fields.lecturer = <<>> /\ lecturerPattern(line)
    THEN [fields EXCEPT !.lecturer = line]
    ELSE fields

\* the body of for (const line of splitText): the first test that applies
classifyLine(fields, line) ==
    IF fields.time = <<>> /\ timePattern(line)
    THEN [fields EXCEPT !.time = line]
    ELSE IF fields.module = <<>> /\ modulePattern(line)
    THEN [fields EXCEPT !.module = line]
    ELSE IF fields.groupCohort = <<>> /\ cohortMatch(line)
    THEN [fields EXCEPT !.groupCohort = cohortOf(line)]
    ELSE IF fields.sessionType = <<>> /\ sessionKeywordPattern(line)
    THEN [fields EXCEPT !.sessionType = line]
    ELSE IF fields.sessionType = <<>> /\ sessionPlacePattern(line)
    THEN [fields EXCEPT !.sessionType = line]
    ELSE IF fields.lecturer = <<>> /\ lecturerPattern(line)
    THEN [fields EXCEPT !.lecturer = line]
    ELSE IF fields.module = <<>>
    THEN [fields EXCEPT !.module = line]
    ELSE fields

\* the classification loop over the lines of one block
RECURSIVE classify(_, _)
classify(fields, splitText) ==
    IF splitText = <<>> THEN fields
    ELSE classify(classifyLine(fields, Head(splitText)), Tail(splitText))

\* columnText.split("\n").map(s => s.trim()).filter(Boolean), the text of
\* the cell being given as its lines
RECURSIVE trimmedLines(_)
trimmedLines(rawLines) ==
    IF rawLines = <<>> THEN <<>>
    ELSE LET line == Trim(Head(rawLines))
         IN  (IF line = <<>> THEN <<>> ELSE <<line>>) \o trimmedLines(Tail(rawLines))

ClashBanner == <<"c", "l", "a", "s", "h", "i", "n", "g", " ", "e", "v", "e", "n", "t", "s">>

\* variant: no line is taken for the banner
isBanner_Never(line) == FALSE

\* /clashing events/i.test(line)
isBanner(line) == Includes(toLowerCase(line), ClashBanner)

\* the loop over allLines of a clash cell: eventBlocks are the blocks closed
\* so far, currentBlock the block being filled
RECURSIVE clashSplit(_, _, _)
clashSplit(allLines, eventBlocks, currentBlock) ==
    IF allLines = <<>>
    THEN IF Len(currentBlock) > 0 THEN Append(eventBlocks, currentBlock)
         ELSE eventBlocks
    ELSE LET line == Head(allLines)
         IN  IF isBanner(line)
             THEN clashSplit(Tail(allLines), eventBlocks, currentBlock)
             ELSE IF timePattern(line)
             THEN clashSplit(Tail(allLines),
                             IF Len(currentBlock) > 0
                             THEN Append(eventBlocks, currentBlock)
                             ELSE eventBlocks,
                             <<line>>)
             ELSE IF Len(currentBlock) > 0
             THEN clashSplit(Tail(allLines), eventBlocks, Append(currentBlock, line))
             ELSE clashSplit(Tail(allLines), eventBlocks, currentBlock)

\* variant: the lines are split by time lines whatever the cell
splitBlocks_AlwaysClash(rawLines, isClash) ==
    clashSplit(trimmedLines(rawLines), <<>>, <<>>)

\* the event blocks of a cell with text: split by time lines when the cell
\* is a clash cell, else one block
splitBlocks(rawLines, isClash) ==
    IF isClash
    THEN clashSplit(trimmedLines(rawLines), <<>>, <<>>)
    ELSE <<trimmedLines(rawLines)>>

TimeTableClash == <<"T", "i", "m", "e", "T", "a", "b", "l", "e", "C", "l", "a", "s", "h">>

VALID_EVENT_CLASSNAMES ==
    { <<"s", "c", "a", "n", "_", "o", "p", "e", "n">>,
      <<"T", "i", "m", "e", "T", "a", "b", "l", "e", "E", "v", "e", "n", "t">>,
      <<"T", "i", "m", "e", "T", "a", "b", "l", "e", "C", "u", "r", "r", "e", "n", "t", "E", "v", "e", "n", "t">>,
      TimeTableClash }

\* VALID_EVENT_CLASSNAMES.some(validClass => className.includes(validClass))
hasEventClass(className) ==
    \E validClass \in VALID_EVENT_CLASSNAMES : Includes(className, validClass)

\* className === 'TimeTableClash'
isClashCell(className) == className = TimeTableClash

DigitValue(c) ==
    CHOOSE n \in 0..9 : <<"0", "1", "2", "3", "4", "5", "6", "7", "8", "9">>[n + 1] = c

RECURSIVE NumberOf(_)
NumberOf(digits) ==
    IF digits = <<>> THEN 0
    ELSE 10 * NumberOf(SubSeq(digits, 1, Len(digits) - 1)) + DigitValue(digits[Len(digits)])

DashSeparator == <<" ", "-", " ">>

\* time.split(" - "): the pieces around the occurrences of " - "
RECURSIVE splitOnDash(_)
splitOnDash(time) ==
    IF Includes(time, DashSeparator)
    THEN LET q == CHOOSE j \in 1..Len(time) :
                     /\ j + 2 <= Len(time)
                     /\ SubSeq(time, j, j + 2) = DashSeparator
                     /\ \A h \in 1..(j - 1) : SubSeq(time, h, h + 2) # DashSeparator
         IN  <<SubSeq(time, 1, q - 1)>> \o splitOnDash(From(time, q + 3))
    ELSE <<time>>

\* parse(text, "HH:mm", dayDate): hours and minutes, invalid when out of range
\* or when the text is not hours:minutes
parseClock(text) ==
    IF IsClock(text)
    THEN LET parts == SplitOn(text, ":")
             hours == NumberOf(parts[1])
             minutes == NumberOf(parts[2])
         IN  [valid |-> hours <= 23 /\ minutes <= 59, hours |-> hours, minutes |-> minutes]
    ELSE [valid |-> FALSE, hours |-> 0, minutes |-> 0]

\* variant: the group of an entry is the session line
finalGroup_Session(fields) == fields.sessionType

\* finalGroup = groupCohort || ""
finalGroup(fields) == fields.groupCohort

\* the entries one block adds to the output: none when the block has fewer
\* than 2 lines, when time or module was not identified, when the time does
\* not split in two around " - ", or when format throws on an invalid date
blockEntries(splitText, dayFullName, dayDate, roomName, topIdx, slotInDay) ==
    IF Len(splitText) < 2 THEN <<>>
    ELSE LET fields == classify(Unclassified, splitText)
             pieces == splitOnDash(fields.time)
         IN  IF fields.time = <<>> \/ fields.module = <<>> THEN <<>>
             ELSE IF Len(pieces) < 2 \/ pieces[1] = <<>> \/ pieces[2] = <<>> THEN <<>>
             ELSE LET startDate == parseClock(Trim(pieces[1]))
                      endDate == parseClock(Trim(pieces[2]))
                  IN  IF ~startDate.valid \/ ~endDate.valid THEN <<>>
                      ELSE << [ topIdx |-> topIdx,
                                slotInDay |-> slotInDay,
                                time |-> fields.time,
                                module |-> fields.module,
                                lecturer |-> fields.lecturer,
                                group |-> finalGroup(fields),
                                roomName |-> roomName,
                                day |-> dayFullName,
                                startDateString |->
                                    <<dayDate, startDate.hours, startDate.minutes>>,
                                endDateString |->
                                    <<dayDate, endDate.hours, endDate.minutes>> ] >>

RECURSIVE blocksEntries(_, _, _, _, _, _)
blocksEntries(eventBlocks, dayFullName, dayDate, roomName, topIdx, slotInDay) ==
    IF eventBlocks = <<>> THEN <<>>
    ELSE blockEntries(Head(eventBlocks), dayFullName, dayDate, roomName, topIdx, slotInDay)
         \o blocksEntries(Tail(eventBlocks), dayFullName, dayDate, roomName, topIdx,
                          slotInDay)

\* variant: only the first block of a cell is looked at
cellEntries_FirstBlock(cell, dayFullName, dayDate, roomName, topIdx, slotInDay) ==
    IF hasEventClass(cell.className) /\ trimmedLines(cell.lines) # <<>>
    THEN blockEntries(Head(splitBlocks(cell.lines, isClashCell(cell.className))),
                      dayFullName, dayDate, roomName, topIdx, slotInDay)
    ELSE <<>>

\* the callback of columns.each for one td: its class and the lines of its text
cellEntries(cell, dayFullName, dayDate, roomName, topIdx, slotInDay) ==
    IF hasEventClass(cell.className) /\ trimmedLines(cell.lines) # <<>>
    THEN blocksEntries(splitBlocks(cell.lines, isClashCell(cell.className)),
                       dayFullName, dayDate, roomName, topIdx, slotInDay)
    ELSE <<>>

RECURSIVE cellsEntries(_, _, _, _, _, _)
cellsEntries(cells, dayFullName, dayDate, roomName, topIdx, colIdx) ==
    IF cells = <<>> THEN <<>>
    ELSE cellEntries(Head(cells), dayFullName, dayDate, roomName, topIdx, colIdx)
         \o cellsEntries(Tail(cells), dayFullName, dayDate, roomName, topIdx, colIdx + 1)

\* the canonical day names as texts, and their abbreviations
DayChars ==
    [d \in {daysOfWeek[j] : j \in 1..Len(daysOfWeek)} |->
        IF d = "Sunday" THEN <<"S", "u", "n", "d", "a", "y">>
        ELSE IF d = "Monday" THEN <<"M", "o", "n", "d", "a", "y">>
        ELSE IF d = "Tuesday" THEN <<"T", "u", "e", "s", "d", "a", "y">>
        ELSE IF d = "Wednesday" THEN <<"W", "e", "d", "n", "e", "s", "d", "a", "y">>
        ELSE IF d = "Thursday" THEN <<"T", "h", "u", "r", "s", "d", "a", "y">>
        ELSE IF d = "Friday" THEN <<"F", "r", "i", "d", "a", "y">>
        ELSE <<"S", "a", "t", "u", "r", "d", "a", "y">>]

DayAbbreviations ==
    [d \in {daysOfWeek[j] : j \in 1..Len(daysOfWeek)} |->
        SubSeq(DayChars[d], 1, 3)]

\* dayFullName of a row: from the th text in the SpanWeek layout (the name
\* the text starts with, in any letter case, capitalised), from the
\* abbreviation in the first td otherwise; "" when there is none
dayFullNameOf(row) ==
    LET text == Trim(row.dayText)
        names == {daysOfWeek[j] : j \in 1..Len(daysOfWeek)}
    IN  IF row.th
        THEN IF \E d \in names : StartsWithI(text, DayChars[d])
             THEN LET d == CHOOSE x \in names : StartsWithI(text, DayChars[x])
                      dayMatch == SubSeq(text, 1, Len(DayChars[d]))
                      capital == <<UpperChar(dayMatch[1])>> \o toLowerCase(Tail(dayMatch))
                  IN  IF \E x \in names : DayChars[x] = capital
                      THEN CHOOSE x \in names : DayChars[x] = capital
                      ELSE ""
             ELSE ""
        ELSE IF \E d \in names : DayAbbreviations[d] = text
             THEN CHOOSE d \in names : DayAbbreviations[d] = text
             ELSE ""

\* variant: the row is not skipped when its day name is not a valid one
includesDay_Always(dayFullName) == TRUE

\* daysOfWeek.includes(dayFullName)
includesDay(dayFullName) == \E j \in 1..Len(daysOfWeek) : daysOfWeek[j] = dayFullName

\* rows.each: the output after the rows from rowIdx on, the output so far
\* being output; an error thrown by getNextOccurrenceOfDay ends the loop and
\* is caught by the catch block, which keeps the output so far
RECURSIVE rowsEntries(_, _, _, _, _)
rowsEntries(rows, rowIdx, output, roomName, now) ==
    IF rowIdx > Len(rows) THEN [caught |-> FALSE, output |-> output]
    ELSE LET row == rows[rowIdx]
             dayFullName == dayFullNameOf(row)
         IN  IF Len(row.cells) = 0 \/ ~includesDay(dayFullName)
             THEN rowsEntries(rows, rowIdx + 1, output, roomName, now)
             ELSE IF ThrowsInvalidDayName(dayFullName)
             THEN [caught |-> TRUE, output |-> output]
             ELSE rowsEntries(rows, rowIdx + 1,
                              output \o cellsEntries(row.cells, dayFullName,
                                           getNextOccurrenceOfDay(dayFullName, now),
                                           roomName, rowIdx,
                                           IF row.th THEN 0 ELSE 1),
                              roomName, now)

(***************************************************************************)
(* Functions called on their own: the argument is drawn by the initial     *)
(* state, the call is one step                                             *)
(***************************************************************************)

\* last day number used as the current date
MaxNow == 13

\* day names passed to getNextOccurrenceOfDay: the canonical ones and others
DayNameInputs ==
    {daysOfWeek[j] : j \in 1..Len(daysOfWeek)} \cup {"monday", "Mon", "Someday", ""}

DayArgs ==
    {[fn |-> "getNextOccurrenceOfDay", dayName |-> d, now |-> n] :
        d \in DayNameInputs, n \in 0..MaxNow}

Returned(value) == [called |-> TRUE, threw |-> FALSE, value |-> value]
Threw(message) == [called |-> TRUE, threw |-> TRUE, value |-> message]

\* everything but the call is left as it is
RunUnchanged ==
    UNCHANGED <<today, dbFile, archives, pc, conn, lastInsertRowid, pendingRooms,
                i, entries, k, stats, lecturerSet, readerView, runsLeft, site,
                pass, fetches, failures, lastError, lastFetch, attemptEntries,
                generation, repeats, extracted, everCompleted, arg, inflight, slept, serverVars>>

\* getNextOccurrenceOfDay(arg.dayName) on the date arg.now
CallGetNextOccurrenceOfDay ==
    /\ arg.fn = "getNextOccurrenceOfDay"
    /\ ~ret.called
    /\ ret' = IF ThrowsInvalidDayName(arg.dayName)
              THEN Threw("Invalid day name")
              ELSE Returned(getNextOccurrenceOfDay(arg.dayName, arg.now))
    /\ RunUnchanged

\* raw lecturer fields: 'Last, First' names, one of them containing the
\* keyword "cc", one in upper case only, one differing from another by the
\* case of its first letter, the separators, and fields that list no name
SmithJohn == <<"S", "m", "i", "t", "h", ",", " ", "J", "o", "h", "n">>
DoeJane == <<"D", "o", "e", ",", " ", "J", "a", "n", "e">>
McCarthyAnn == <<"M", "c", "C", "a", "r", "t", "h", "y", ",", " ", "A", "n", "n">>
KingBobUpper == <<"K", "I", "N", "G", ",", " ", "B", "O", "B">>
SmithJohnSmall == <<"s", "m", "i", "t", "h", ",", " ", "J", "o", "h", "n">>
ListedNames == {SmithJohn, DoeJane, McCarthyAnn, KingBobUpper, SmithJohnSmall}
NameSeparators ==
    { <<" ", "&", " ">>, <<" ", "/", " ">>, <<" ", "a", "n", "d", " ">>, <<";", " ">>, <<"&">> }
NoNameFields ==
    { <<"T", "B", "C">>, <<"R", "o", "o", "m", " ", "1", "0", "1">>, <<"A", "d", "m", "i", "n">>, <<"V", "a", "c", "a", "n", "t">>, <<>> }

NameArgs ==
    {[fn |-> "extractLecturerNames", first |-> a, second |-> b,
      raw |-> a \o sep \o b] :
        a \in ListedNames, b \in ListedNames, sep \in NameSeparators}
    \cup {[fn |-> "extractLecturerNames", first |-> <<>>, second |-> <<>>,
           raw |-> raw] : raw \in NoNameFields}

\* extractLecturerNames(arg.raw)
CallExtractLecturerNames ==
    /\ arg.fn = "extractLecturerNames"
    /\ ~ret.called
    /\ ret' = Returned(extractLecturerNames(arg.raw))
    /\ RunUnchanged

\* lines of timetable cells
NineToTen == <<"0", "9", ":", "0", "0", " ", "-", " ", "1", "0", ":", "0", "0">>
TenToOne == <<"1", "0", ":", "0", "0", " ", "-", " ", "1", "3", ":", "0", "0">>
OneToTen == <<"1", "3", ":", "0", "0", " ", "-", " ", "1", "0", ":", "0", "0">>
NineToTenNoSpaces == <<"0", "9", ":", "0", "0", "-", "1", "0", ":", "0", "0">>
TwentyFiveToTwentySix == <<"2", "5", ":", "0", "0", " ", "-", " ", "2", "6", ":", "0", "0">>
SoftwareDevelopment == <<"C", "O", "2", "4", "0", "1", " ", "-", " ", "S", "o", "f", "t", "w", "a", "r", "e", " ", "D", "e", "v", "e", "l", "o", "p", "m", "e", "n", "t">>
Programming == <<"C", "O", "1", "1", "1", "1", " ", "-", " ", "P", "r", "o", "g", "r", "a", "m", "m", "i", "n", "g">>
Networks == <<"C", "O", "3", "3", "3", "3", " ", "-", " ", "N", "e", "t", "w", "o", "r", "k", "s">>
KingJohn == <<"K", "i", "n", "g", ",", " ", "J", "o", "h", "n">>
DimitriadouAthanasia == <<"D", "i", "m", "i", "t", "r", "i", "a", "d", "o", "u", ",", " ", "A", "t", "h", "a", "n", "a", "s", "i", "a">>
PracticalOnCampus == <<"P", "r", "a", "c", "t", "i", "c", "a", "l", " ", "(", "O", "n", " ", "C", "a", "m", "p", "u", "s", ")">>
GroupA == <<"(", "G", "r", "o", "u", "p", ":", " ", "A", ")">>
ClashingEvents == <<"C", "l", "a", "s", "h", "i", "n", "g", " ", "E", "v", "e", "n", "t", "s">>
PaddedName == <<" ", " ", "K", "i", "n", "g", ",", " ", "J", "o", "h", "n", " ">>
BlankLine == <<" ", " ">>

MaxLines == 4

\* the raw lines the cells given to splitBlocks are made of
SplitLines ==
    {NineToTen, TenToOne, Programming, PaddedName, ClashingEvents, BlankLine}

SplitArgs ==
    { [fn |-> "splitBlocks", lines |-> lines, isClash |-> isClash] :
        lines \in UNION {[1..n -> SplitLines] : n \in 1..MaxLines},
        isClash \in BOOLEAN }

CallSplitBlocks ==
    /\ arg # NoArg
    /\ arg.fn = "splitBlocks"
    /\ ~ret.called
    /\ ret' = Returned(splitBlocks(arg.lines, arg.isClash))
    /\ RunUnchanged

StandardBlock == <<NineToTen, SoftwareDevelopment, KingJohn, PracticalOnCampus>>
NoLecturerBlock == <<TenToOne, Programming>>
LecturerBlock == <<TenToOne, Networks, DimitriadouAthanasia, GroupA>>
ReversedBlock == <<OneToTen, Programming>>
NoSpacesBlock == <<NineToTenNoSpaces, Programming>>
BadClockBlock == <<TwentyFiveToTwentySix, Programming>>
TimeOnlyBlock == <<NineToTen>>
NoModuleBlock == <<NineToTen, KingJohn>>

BlockCatalogue ==
    {StandardBlock, NoLecturerBlock, LecturerBlock, ReversedBlock, NoSpacesBlock,
     BadClockBlock, TimeOnlyBlock, NoModuleBlock}

MaxBlocks == 2

RECURSIVE Flatten(_)
Flatten(blocks) ==
    IF blocks = <<>> THEN <<>> ELSE Head(blocks) \o Flatten(Tail(blocks))

\* the texts of cells: blocks one after the other, with or without the banner
CellTexts ==
    { prefix \o Flatten(blocks) :
        prefix \in {<<>>, <<ClashingEvents>>},
        blocks \in UNION {[1..n -> BlockCatalogue] : n \in 1..MaxBlocks} }

FirstRowClash == <<"T", "i", "m", "e", "T", "a", "b", "l", "e", "C", "l", "a", "s", "h", " ", "F", "i", "r", "s", "t", "R", "o", "w">>
SpacerClass == <<"S", "p", "a", "c", "e", "r">>

CellClasses == {<<"T", "i", "m", "e", "T", "a", "b", "l", "e", "E", "v", "e", "n", "t">>, TimeTableClash, FirstRowClash, SpacerClass}

\* cells: every text under the event classes, one block under the other class
Cells ==
    { [className |-> className, lines |-> lines] :
        className \in CellClasses \ {SpacerClass}, lines \in CellTexts }
    \cup { [className |-> SpacerClass, lines |-> lines] : lines \in BlockCatalogue }

GoodCell == [className |-> <<"T", "i", "m", "e", "T", "a", "b", "l", "e", "E", "v", "e", "n", "t">>, lines |-> NoLecturerBlock]

\* the day texts of rows: th of the SpanWeek layout or first td of the other
DayForms ==
    { [th |-> TRUE, dayText |-> <<"M", "o", "n", "d", "a", "y">>],
      [th |-> TRUE, dayText |-> <<" ", "t", "u", "e", "s", "d", "a", "y", " ", "3", " ", "N", "o", "v", " ">>],
      [th |-> FALSE, dayText |-> <<"W", "e", "d">>],
      [th |-> TRUE, dayText |-> <<"S", "o", "m", "e", "d", "a", "y">>],
      [th |-> FALSE, dayText |-> <<"X", "y", "z">>],
      [th |-> TRUE, dayText |-> <<"M", "o", "n">>] }

RowOf(form, cells) == [th |-> form.th, dayText |-> form.dayText, cells |-> cells]

BadDayRow == RowOf([th |-> TRUE, dayText |-> <<"S", "o", "m", "e", "d", "a", "y">>], <<GoodCell>>)

MondayForm == [th |-> TRUE, dayText |-> DayChars["Monday"]]

\* pages: every cell alone and followed by another cell in a Monday row, and
\* every day text on a row alone, after a row without a day and before one
TimetablePages ==
    UNION { { <<RowOf(MondayForm, <<cell>>)>>,
              <<RowOf(MondayForm, <<cell, GoodCell>>)>> } : cell \in Cells }
    \cup
    UNION { { <<RowOf(form, <<cell>>)>>,
              <<BadDayRow, RowOf(form, <<cell>>)>>,
              <<RowOf(form, <<cell, GoodCell>>), BadDayRow>>,
              <<RowOf(form, <<cell>>), RowOf(MondayForm, <<GoodCell>>)>> } :
            form \in DayForms,
            cell \in {GoodCell, [className |-> TimeTableClash, lines |-> StandardBlock]} }

ScrapeArgs ==
    { [fn |-> "scrapeRoomTimeTable", rows |-> rows, roomName |-> "CM034",
       now |-> MaxNow] : rows \in TimetablePages }

CallScrapeRoomTimeTable ==
    /\ arg # NoArg
    /\ arg.fn = "scrapeRoomTimeTable"
    /\ ~ret.called
    /\ ret' = Returned(rowsEntries(arg.rows, 1, <<>>, arg.roomName, arg.now))
    /\ RunUnchanged

\* a line that no pattern matches
WeeksOneToSix == <<"W", "e", "e", "k", "s", " ", "1", "-", "6">>

\* the lines the groups given to the classification loop are made of
GroupLines ==
    {NineToTen, SoftwareDevelopment, Programming, KingJohn, GroupA, WeeksOneToSix}

ClassifyArgs ==
    { [fn |-> "classify", lines |-> lines] :
        lines \in UNION {[1..n -> GroupLines] : n \in 1..MaxLines} }

\* the classification loop over the line group arg.lines
CallClassify ==
    /\ arg # NoArg
    /\ arg.fn = "classify"
    /\ ~ret.called
    /\ ret' = Returned(classify(Unclassified, arg.lines))
    /\ RunUnchanged

CallArgs == DayArgs \cup NameArgs \cup SplitArgs \cup ScrapeArgs \cup ClassifyArgs

InitCall ==
    /\ Boot
    /\ runsLeft = 0
    /\ site = "small"
    /\ arg \in CallArgs

NextCall ==
    \/ CallGetNextOccurrenceOfDay
    \/ CallExtractLecturerNames
    \/ CallSplitBlocks
    \/ CallScrapeRoomTimeTable
    \/ CallClassify

SpecCall == InitCall /\ [][NextCall]_vars

(***************************************************************************)
(* The lecturer cache of the lecturers router (src/unnamed/part_009)       *)
(***************************************************************************)

\* everything the routers leave as it is
runVars ==
    <<today, dbFile, archives, pc, conn, lastInsertRowid, pendingRooms, i,
      entries, k, stats, lecturerSet, readerView, runsLeft, site, pass, fetches,
      failures, lastError, lastFetch, attemptEntries, generation, repeats,
      extracted, everCompleted, arg, ret, inflight, slept>>

\* const CACHE_TTL_MS = process.env.NODE_ENV === "development" ? 15 : 15 * 60 * 1000
CACHE_TTL_MS(nodeEnv) ==
    IF nodeEnv = "development" THEN 15 ELSE 15 * 60 * 1000

\* const isFresh = now - lecturerCache.generatedAt < CACHE_TTL_MS
isFresh(now, cache, nodeEnv) ==
    now - cache.generatedAt < CACHE_TTL_MS(nodeEnv)

\* if (!forceRefresh && lecturerCache) { ... if (isFresh) return lecturerCache }
servedFromStore(forceRefresh, cache, now, nodeEnv) ==
    /\ ~forceRefresh
    /\ cache # NoCache
    /\ isFresh(now, cache, nodeEnv)

\* variant: buildLecturerCache is called whether or not a rebuild is stored
startsBuild_Always(stored) == TRUE

\* if (!inflightBuild)
startsBuild(stored) == stored = 0

\* a request calls getLecturerCache(forceRefresh): the stored cache is
\* returned, or the promise of a rebuild, which is started when none is stored
GetLecturerCache ==
    /\ \E q \in 1..MaxRequests, forceRefresh \in BOOLEAN :
         /\ requests[q].state = "none"
         /\ \A o \in 1..(q - 1) : requests[o].state # "none"
         /\ LET called == [NoRequest EXCEPT
                              !.forceRefresh = forceRefresh,
                              !.fresh = lecturerCache # NoCache
                                        /\ isFresh(clock.now, lecturerCache, clock.nodeEnv),
                              !.arrivedDuring = inflightBuild]
            IN  IF servedFromStore(forceRefresh, lecturerCache, clock.now, clock.nodeEnv)
                THEN /\ requests' = [requests EXCEPT ![q] =
                                        [called EXCEPT !.state = "done",
                                                       !.result = CacheOf(lecturerCache.build)]]
                     /\ UNCHANGED <<inflightBuild, builds>>
                ELSE IF startsBuild(inflightBuild)
                THEN /\ builds' = Append(builds, "running")
                     /\ inflightBuild' = Len(builds) + 1
                     /\ requests' = [requests EXCEPT ![q] =
                                        [called EXCEPT !.state = "waiting",
                                                       !.awaits = Len(builds) + 1]]
                ELSE /\ requests' = [requests EXCEPT ![q] =
                                        [called EXCEPT !.state = "waiting",
                                                       !.awaits = inflightBuild]]
                     /\ UNCHANGED <<inflightBuild, builds>>
    /\ UNCHANGED <<lecturerCache, clock, triggerVars, runVars>>

\* the requests after rebuild b has settled with outcome: those that await
\* its promise receive it
Settled(b, outcome) ==
    [q \in 1..MaxRequests |->
        IF requests[q].state = "waiting" /\ requests[q].awaits = b
        THEN [requests[q] EXCEPT !.state = "done", !.result = outcome]
        ELSE requests[q]]

\* buildLecturerCache resolves: .then((cache) => { lecturerCache = cache;
\* inflightBuild = null; return cache })
BuildResolves ==
    /\ \E b \in 1..Len(builds) :
         /\ builds[b] = "running"
         /\ lecturerCache' = [generatedAt |-> clock.now, build |-> b]
         /\ inflightBuild' = 0
         /\ builds' = [builds EXCEPT ![b] = "ok"]
         /\ requests' = Settled(b, CacheOf(b))
    /\ UNCHANGED <<clock, triggerVars, runVars>>

\* buildLecturerCache rejects: .catch((error) => { inflightBuild = null;
\* throw error })
BuildRejects ==
    /\ \E b \in 1..Len(builds) :
         /\ builds[b] = "running"
         /\ inflightBuild' = 0
         /\ builds' = [builds EXCEPT ![b] = "failed"]
         /\ requests' = Settled(b, BuildError)
    /\ UNCHANGED <<lecturerCache, clock, triggerVars, runVars>>

\* time passes: a millisecond, or the time to live of the cache
Tick ==
    /\ clock.ticks < MaxTicks
    /\ \E d \in {1, CACHE_TTL_MS(clock.nodeEnv)} :
         clock' = [clock EXCEPT !.now = @ + d, !.ticks = @ + 1]
    /\ UNCHANGED <<lecturerCache, inflightBuild, requests, builds, triggerVars, runVars>>

InitCache ==
    /\ RunBoot
    /\ runsLeft = 0
    /\ site = "small"
    /\ arg = NoArg
    /\ \E nodeEnv \in {"development", "production"} : ServerBoot(nodeEnv)

NextCache ==
    \/ GetLecturerCache
    \/ BuildResolves
    \/ BuildRejects
    \/ Tick

SpecCache == InitCache /\ [][NextCache]_vars

(***************************************************************************)
(* The triggers of runScrape in the server (src/unnamed/part_011)          *)
(***************************************************************************)

\* variant: the trigger does not look at the flag
alreadyScraping_Never(flag) == FALSE

\* if (isScraping)
alreadyScraping(flag) == flag

\* lastScrapeStatus = { status: "running", startedAt: ..., completedAt: null,
\* stats: null, error: null }
RunningStatus(now) ==
    [status |-> "running", startedAt |-> now, completedAt |-> 0, error |-> "null"]

\* a trigger that finds no run in progress sets the flag and the status and
\* calls runScrape; the call of a second runScrape while one is active can
\* only be counted
TriggerStarts(caller, response) ==
    /\ runsLeft > 0
    /\ isScraping' = TRUE
    /\ lastScrapeStatus' = RunningStatus(today)
    /\ awaitedBy' = caller
    /\ triggerLog' = [unsettled |-> triggerLog.unsettled + 1,
                      during |-> triggerLog.unsettled > 0,
                      started |-> TRUE,
                      response |-> response]
    /\ IF pc \in {"idle", "done"} THEN runScrapeStart ELSE UNCHANGED runVars
    /\ UNCHANGED cacheVars

\* a trigger that finds a run in progress starts nothing
TriggerRefused(response) ==
    /\ triggerLog' = [triggerLog EXCEPT !.during = triggerLog.unsettled > 0,
                                        !.started = FALSE,
                                        !.response = response]
    /\ UNCHANGED <<isScraping, lastScrapeStatus, awaitedBy, cacheVars, runVars>>

\* POST /force-scrape: 409 when a scrape is in progress, else the scrape is
\* started in the background and the response is 202
PostForceScrape ==
    IF alreadyScraping(isScraping)
    THEN TriggerRefused("409")
    ELSE TriggerStarts("route", "202")

\* triggerScrape(), up to its await: the scheduled run is skipped when a
\* scrape is in progress
TriggerScrape ==
    IF alreadyScraping(isScraping)
    THEN TriggerRefused("skipped")
    ELSE TriggerStarts("cron", "awaiting")

\* a statement of runScrape outside the try block of the room loop throws:
\* the promise of the run rejects
RunThrows ==
    /\ pc \in {"populate", "finish"}
    /\ awaitedBy \in {"route", "cron"}
    /\ runScrapeAbandoned
    /\ UNCHANGED serverVars

\* what the handlers of a trigger make of the status when the run has
\* ended: completed when it returned, failed when it threw
EndStatus(returned, now, message) ==
    IF returned
    THEN [lastScrapeStatus EXCEPT !.status = "completed", !.completedAt = now]
    ELSE [lastScrapeStatus EXCEPT !.status = "failed", !.completedAt = now,
                                  !.error = message]

\* the .then or the .catch handler of POST /force-scrape
RouteSettles ==
    /\ awaitedBy = "route"
    /\ pc \in {"done", "idle"}
    /\ \E message \in DbErrors :
         lastScrapeStatus' = EndStatus(pc = "done", today, message)
    /\ awaitedBy' = "finally"
    /\ UNCHANGED <<isScraping, triggerLog, cacheVars, runVars>>

\* the .finally handler of POST /force-scrape
RouteFinally ==
    /\ awaitedBy = "finally"
    /\ isScraping' = FALSE
    /\ awaitedBy' = "none"
    /\ triggerLog' = [triggerLog EXCEPT !.unsettled = @ - 1]
    /\ UNCHANGED <<lastScrapeStatus, cacheVars, runVars>>

\* triggerScrape() after its await: the rest of the try block or the catch
\* block, then the finally block
CronResumes ==
    /\ awaitedBy = "cron"
    /\ pc \in {"done", "idle"}
    /\ \E message \in DbErrors :
         lastScrapeStatus' = EndStatus(pc = "done", today, message)
    /\ isScraping' = FALSE
    /\ awaitedBy' = "none"
    /\ triggerLog' = [triggerLog EXCEPT !.unsettled = @ - 1]
    /\ UNCHANGED <<cacheVars, runVars>>

InitTrigger ==
    /\ Boot
    /\ runsLeft = MaxRuns
    /\ site = "small"
    /\ arg = NoArg

NextTrigger ==
    \/ PostForceScrape
    \/ TriggerScrape
    \/ RunStep
    \/ RunThrows
    \/ RouteSettles
    \/ RouteFinally
    \/ CronResumes

SpecTrigger == InitTrigger /\ [][NextTrigger]_vars

(***************************************************************************)
(* Properties                                                              *)
(***************************************************************************)

\* the rows of events of one room in a store
EventsOf(db, r) == {e \in db.events : e.room_name = r}

\* the unique key of an event row or of an entry
EventKey(e) == <<e.room_name, e.start_time, e.end_time, e.module_raw>>

\* the keys of the entries of the attempt recorded for a room
AttemptKeys(r) == {EventKey(attemptEntries[r][j]) : j \in 1..Len(attemptEntries[r])}

Logged(r) == dbFile # NoFile /\ HasLogRow(dbFile, r)

\* C1: when the HTTP fetch for a room fails, runScrape records a failed
\* attempt for it and never records status 'success' for that attempt: a room
\* whose last fetch failed does not have status 'success'
C1_FetchFailureIsReported ==
    \A r \in Rooms :
        (Logged(r) /\ lastFetch[r] = "failed") =>
            LogRow(dbFile, r).status # "success"

\* C2: a room whose attempts 1 and 2 fail and whose attempt 3 succeeds has
\* status 'success', attempts = 3, events_found equal to the number of
\* entries of the third attempt, and those entries are rows of events; at the
\* end of the run a room with exactly two failed attempts has succeeded
C2_SuccessOnThirdAttempt ==
    \A r \in Rooms :
        /\ (Logged(r) /\ failures[r] = 2 /\ LogRow(dbFile, r).status = "success") =>
              /\ LogRow(dbFile, r).attempts = 3
              /\ LogRow(dbFile, r).events_found = Len(attemptEntries[r])
              /\ AttemptKeys(r) \subseteq {EventKey(e) : e \in dbFile.events}
        /\ (pc = "done" /\ failures[r] = 2) => LogRow(dbFile, r).status = "success"

C2_Witness ==
    /\ pc = "done"
    /\ \E r \in Rooms :
         /\ failures[r] = 2
         /\ LogRow(dbFile, r).status = "success"
         /\ LogRow(dbFile, r).events_found = 2

\* C3: a room whose attempts all fail is attempted exactly 3 times and no
\* more; it ends 'failed' with attempts = 3 and the error of the last
\* attempt, and after failed attempts 1 and 2 it is still 'pending'
C3_FailedAfterThreeAttempts ==
    \A r \in Rooms :
        Logged(r) =>
            /\ fetches[r] <= 3
            /\ (failures[r] = fetches[r] /\ failures[r] \in {1, 2}) =>
                  /\ LogRow(dbFile, r).status = "pending"
                  /\ LogRow(dbFile, r).attempts = failures[r]
                  /\ LogRow(dbFile, r).error_message = lastError[r]
            /\ (failures[r] = 3) =>
                  /\ LogRow(dbFile, r).status = "failed"
                  /\ LogRow(dbFile, r).attempts = 3
                  /\ LogRow(dbFile, r).error_message = lastError[r]
                  /\ lastError[r] # "null"

C3_Witness ==
    /\ pc = "done"
    /\ \E r \in Rooms :
         /\ fetches[r] = 3
         /\ failures[r] = 3
         /\ LogRow(dbFile, r).status = "failed"

\* C4: after a run crashed part-way, starting runScrape again continues from
\* the existing scrape_log: the rooms recorded 'success' stay recorded
\* 'success' and their events remain in the store
C4_RestartResumes ==
    [][ (pc = "idle" /\ dbFile # NoFile /\ pc' # "idle") =>
            \A r \in Rooms :
                (HasLogRow(dbFile, r) /\ LogRow(dbFile, r).status = "success") =>
                    /\ HasLogRow(dbFile', r)
                    /\ LogRow(dbFile', r).status = "success"
                    /\ EventsOf(dbFile, r) \subseteq dbFile'.events ]_vars

\* C5: ingesting the same list of entries for the same room a second time,
\* right after an ingestion of it that committed, leaves the rows of events
\* and the rows of lecturers as they were
C5_ReingestAddsNoRows ==
    [][ ( /\ pc = "ingest"
          /\ fetches' # fetches
          /\ entries # <<>>
          /\ entries' = entries
          /\ attemptEntries[entries[1].room_name] = entries ) =>
            /\ dbFile'.events = dbFile.events
            /\ dbFile'.lecturers = dbFile.lecturers ]_vars

C5_Witness ==
    /\ pc = "ingest"
    /\ repeats = 1
    /\ Len(entries) = 2
    /\ Cardinality(dbFile.events) = 2
    /\ dbFile.lecturers # {}

\* the lecturer names the committed attempts of the run extracted
CommittedNames ==
    UNION { UNION { {extracted[attemptEntries[r][j].lecturer][n] :
                        n \in 1..Len(extracted[attemptEntries[r][j].lecturer])} :
                    j \in 1..Len(attemptEntries[r]) } :
            r \in {x \in Rooms : EventsOf(dbFile, x) # {}} }

\* C6: the inserts of one room attempt are atomic.  In the committed store,
\* which is what a read-only connection observes, a room has either no row
\* of events or the rows of all entries of its attempt; after an attempt that
\* failed none of its rows remain (no event of the room, no lecturer and no
\* link that only the failed attempt inserted); and what a reader has read is
\* empty or the complete set of rows of one room
C6_AttemptIsAtomic ==
    dbFile # NoFile =>
        /\ \A r \in Rooms :
              \/ EventsOf(dbFile, r) = {}
              \/ {EventKey(e) : e \in EventsOf(dbFile, r)} = AttemptKeys(r)
        /\ \A l \in dbFile.lecturers : l.name \in CommittedNames
        /\ \A x \in dbFile.event_lecturers :
              /\ \E e \in dbFile.events : e.id = x.event_id
              /\ \E l \in dbFile.lecturers : l.id = x.lecturer_id
        /\ \/ readerView = {}
           \/ \E r \in Rooms :
                 /\ \A e \in readerView : e.room_name = r
                 /\ {EventKey(e) : e \in readerView} = AttemptKeys(r)

C6_Witness ==
    /\ pc = "done"
    /\ \E r \in Rooms :
         /\ failures[r] = 1
         /\ LogRow(dbFile, r).status = "success"
         /\ Cardinality(EventsOf(dbFile, r)) = 2
         /\ readerView = EventsOf(dbFile, r)

\* C7: the status of a scrape_log row only changes from 'pending'; a row
\* that is 'success' or 'failed' is not attempted and not modified again in
\* the run; and a row goes from 'pending' to 'failed' exactly when a failing
\* attempt brings its attempts to 3
C7_StatusTransitions ==
    [][ \A r \in Rooms :
          (Logged(r) /\ HasLogRow(dbFile', r)) =>
            LET old == LogRow(dbFile, r)
                new == LogRow(dbFile', r)
            IN  /\ old.status # new.status => old.status = "pending"
                /\ old.status \in {"success", "failed"} =>
                      /\ new = old
                      /\ fetches'[r] = fetches[r]
                /\ (old.status = "pending" /\ new.status = "failed") <=>
                      (failures'[r] = failures[r] + 1 /\ new.attempts = 3) ]_vars

C7_Witness ==
    /\ pc = "done"
    /\ \E r \in Rooms : LogRow(dbFile, r).status = "failed"
    /\ \E r \in Rooms :
         LogRow(dbFile, r).status = "success" /\ LogRow(dbFile, r).attempts < 3

AllSettled ==
    /\ \A j \in 1..Len(dbFile.scrape_log) :
          dbFile.scrape_log[j].status \in {"success", "failed"}
    /\ stats.success + stats.failed = Len(dbFile.scrape_log)

\* C8: the main loop of runScrape terminates after at most 3 passes, and
\* when it has ended every scrape_log row is 'success' or 'failed' and
\* stats.success + stats.failed is the number of rows
C8_LoopTerminates ==
    /\ <>(pc = "done")
    /\ [](pass <= 3)
    /\ [](pc \in {"finish", "done"} => AllSettled)

C8_Witness ==
    /\ pc = "done"
    /\ pass = 3
    /\ Len(dbFile.scrape_log) = 2

ArchiveIds(arch) == {arch[d] : d \in DOMAIN arch}

\* C9: rotateDatabase never destroys the prior generation: after it returns
\* the previous events.db is available under an archive name, and every
\* archive that existed is unchanged
C9_PriorGenerationKept ==
    [][ (generation' # generation /\ dbFile # NoFile) =>
            /\ generation \in ArchiveIds(archives')
            /\ \A d \in DOMAIN archives :
                  d \in DOMAIN archives' /\ archives'[d] = archives[d] ]_vars

\* C9 as amended: rotateDatabase never changes an archive that exists; the
\* previous events.db is renamed to the archive of yesterday's date when no
\* archive of that name exists, and is deleted when one exists
C9_ArchivesNeverOverwritten ==
    [][ (generation' # generation) =>
            /\ \A d \in DOMAIN archives :
                  d \in DOMAIN archives' /\ archives'[d] = archives[d]
            /\ (dbFile # NoFile /\ (today - 1) \notin DOMAIN archives) =>
                  /\ archives'[today - 1] = generation
                  /\ DOMAIN archives' = DOMAIN archives \cup {today - 1}
            /\ (dbFile # NoFile /\ (today - 1) \in DOMAIN archives) =>
                  /\ archives' = archives
                  /\ generation \notin ArchiveIds(archives')
            /\ dbFile = NoFile => archives' = archives ]_vars

C9_Witness ==
    /\ generation = 3
    /\ 1 \in ArchiveIds(archives)
    /\ 2 \notin ArchiveIds(archives)

\* C10: no two rows of lecturers have the same lowercased name
C10_LecturersUniqueByLowerName ==
    dbFile # NoFile =>
        \A l1 \in dbFile.lecturers, l2 \in dbFile.lecturers :
            l1.name_lower = l2.name_lower => l1 = l2

\* C11: isDatabaseReady returns false in every state in which no scrape run
\* has ever completed, in particular while the first run is in progress
C11_NotReadyBeforeFirstCompletion ==
    ~everCompleted => ~isDatabaseReady(dbFile)

\* the weekday name of a date: Date.prototype.getDay() numbers Sunday as 0
WeekdayOf(date) == daysOfWeek[(date % 7) + 1]

\* C16: for each of the seven canonical weekday names and every current
\* date, getNextOccurrenceOfDay returns a date whose weekday is the requested
\* one and that lies 0 to 6 days after today, today itself when today is
\* that weekday
C16_NextOccurrenceWithinWeek ==
    (/\ ret.called
     /\ arg.fn = "getNextOccurrenceOfDay"
     /\ \E j \in 1..Len(daysOfWeek) : daysOfWeek[j] = arg.dayName) =>
        /\ ~ret.threw
        /\ WeekdayOf(ret.value) = arg.dayName
        /\ ret.value - arg.now \in 0..6
        /\ WeekdayOf(arg.now) = arg.dayName => ret.value = arg.now

C16_Witness ==
    /\ ret.called
    /\ arg.fn = "getNextOccurrenceOfDay"
    /\ arg.dayName = "Sunday"
    /\ arg.now = 8
    /\ ret.value = 14

\* the names a call returned, as a set
ReturnedNames == {ret.value[j] : j \in 1..Len(ret.value)}

NamesCall == ret.called /\ arg.fn = "extractLecturerNames"

\* C20: extractLecturerNames returns both names for a raw field listing two
\* 'Last, First' names joined by '&', '/', 'and' or ';' (the names compared
\* without regard to letter case), and returns the empty list for "TBC", for
\* a field containing a digit and for a bare token
C20_BothNamesOrNone ==
    NamesCall =>
        IF arg.first # <<>>
        THEN {toLowerCase(r) : r \in ReturnedNames} =
                 {toLowerCase(arg.first), toLowerCase(arg.second)}
        ELSE ret.value = <<>>

SplitCall == ret.called /\ arg.fn = "splitBlocks"

\* the lines of the call's cell, trimmed, the empty ones left out
KeptLines ==
    SelectSeq([j \in 1..Len(arg.lines) |-> Trim(arg.lines[j])], LAMBDA l : l # <<>>)

\* C18: splitting a non-clash cell returns exactly one group, made of all the
\* non-empty trimmed lines of the cell in their original order.
C18_NonClashIsOneGroup ==
    (SplitCall /\ ~arg.isClash) =>
        /\ Len(ret.value) = 1
        /\ ret.value[1] = KeptLines

\* a non-clash cell with two time lines, a blank line and a padded line
C18_Witness ==
    /\ SplitCall
    /\ ~arg.isClash
    /\ arg.lines = <<NineToTen, BlankLine, PaddedName, TenToOne>>
    /\ ret.value = << <<NineToTen, KingJohn, TenToOne>> >>

\* the positions in KeptLines of the lines matching the time-range pattern
TimePositions == {j \in 1..Len(KeptLines) : timePattern(KeptLines[j])}

\* the lines of KeptLines that follow the first time line and are not the banner
LinesInGroups ==
    SelectSeq([j \in 1..Len(KeptLines) |->
                  IF (\E q \in TimePositions : q <= j)
                     /\ ~Includes(toLowerCase(KeptLines[j]), ClashBanner)
                  THEN KeptLines[j] ELSE <<>>],
              LAMBDA l : l # <<>>)

\* C19: splitting a clash cell whose lines hold N time lines returns exactly N
\* groups, each starting with one of those time lines and holding no other
\* time line, in order; the banner line, the empty lines and the lines before
\* the first time line are in no group.
C19_ClashGroupsPerTimeLine ==
    (SplitCall /\ arg.isClash) =>
        /\ Len(ret.value) = Cardinality(TimePositions)
        /\ \A g \in 1..Len(ret.value) :
              /\ Len(ret.value[g]) >= 1
              /\ timePattern(ret.value[g][1])
              /\ \A j \in 2..Len(ret.value[g]) : ~timePattern(ret.value[g][j])
        /\ Flatten(ret.value) = LinesInGroups

\* a clash cell with a line before the first time line, two time lines and
\* the banner inside the second group
C19_Witness ==
    /\ SplitCall
    /\ arg.isClash
    /\ arg.lines = <<Programming, NineToTen, TenToOne, ClashingEvents>>
    /\ ret.value = << <<NineToTen>>, <<TenToOne>> >>

ScrapeCall == ret.called /\ arg.fn = "scrapeRoomTimeTable"

\* the entries a call of scrapeRoomTimeTable returned
Output == ret.value.output

\* the cells of the page, as <<row, column>> (from 1)
Positions ==
    UNION { { <<r, c>> : c \in 1..Len(arg.rows[r].cells) } : r \in 1..Len(arg.rows) }

CellAt(pos) == arg.rows[pos[1]].cells[pos[2]]

\* the entries returned for the cell at pos, in order
EntriesAt(pos) ==
    SelectSeq(Output,
              LAMBDA e : /\ e.topIdx = pos[1]
                         /\ e.slotInDay = IF arg.rows[pos[1]].th THEN pos[2] - 1
                                          ELSE pos[2])

CanonicalNames ==
    {"Monday", "Tuesday", "Wednesday", "Thursday", "Friday", "Saturday", "Sunday"}

\* the day text of the row resolves to a canonical weekday name
RowResolved(r) == dayFullNameOf(arg.rows[r]) \in CanonicalNames

\* the lines of the cell at pos, trimmed, without the empty ones and the banner
CellLines(pos) ==
    SelectSeq([j \in 1..Len(CellAt(pos).lines) |-> Trim(CellAt(pos).lines[j])],
              LAMBDA l : l # <<>> /\ ~Includes(toLowerCase(l), ClashBanner))

\* a time line "H:MM - H:MM" whose two clock times exist
WellFormedTime(time) ==
    \E q \in 1..Len(time) :
        /\ q + 2 <= Len(time)
        /\ SubSeq(time, q, q + 2) = <<" ", "-", " ">>
        /\ \A half \in {Trim(SubSeq(time, 1, q - 1)), Trim(From(time, q + 3))} :
              /\ IsClock(half)
              /\ NumberOf(SplitOn(half, ":")[1]) <= 23
              /\ NumberOf(SplitOn(half, ":")[2]) <= 59

\* a block headed by a well-formed time line and followed by a module line
ModuleBlock(block) ==
    /\ Len(block) >= 2
    /\ timePattern(block[1])
    /\ WellFormedTime(block[1])
    /\ modulePattern(block[2])

\* the 'Last, First' line of a block headed by time and module, if any
LecturerLine(block) ==
    IF Len(block) >= 3 /\ commaNamePattern(block[3]) THEN block[3] ELSE <<>>

\* C12: a cell marked as a clash, TimeTableClash being its whole class
\* attribute or one class of a compound class string, that holds two
\* time-headed blocks with a module line each yields two entries, each with
\* the time, the module and the lecturer of its block (no lecturer for a
\* block without one).
C12_ClashCellYieldsTwoEntries ==
    ScrapeCall =>
        \A pos \in Positions :
            \A b1, b2 \in {b \in BlockCatalogue : ModuleBlock(b)} :
                (/\ RowResolved(pos[1])
                 /\ Includes(CellAt(pos).className, TimeTableClash)
                 /\ CellLines(pos) = b1 \o b2) =>
                    /\ Len(EntriesAt(pos)) = 2
                    /\ \A j \in 1..2 :
                          LET b == IF j = 1 THEN b1 ELSE b2
                          IN  /\ EntriesAt(pos)[j].time = b[1]
                              /\ EntriesAt(pos)[j].module = b[2]
                              /\ EntriesAt(pos)[j].lecturer = LecturerLine(b)

\* the non-clash cells made of a time line, a module-code line, a
\* 'Last, First' line and a session line, in rows with a day
FourLineCells ==
    { pos \in Positions :
        /\ RowResolved(pos[1])
        /\ hasEventClass(CellAt(pos).className)
        /\ ~Includes(CellAt(pos).className, TimeTableClash)
        /\ Len(CellAt(pos).lines) = 4
        /\ ModuleBlock(CellAt(pos).lines)
        /\ commaNamePattern(CellAt(pos).lines[3])
        /\ sessionKeywordPattern(CellAt(pos).lines[4]) }

Emits(block) ==
    /\ Len(block) >= 2
    /\ LET fields == classify(Unclassified, block)
       IN  /\ fields.time # <<>>
           /\ fields.module # <<>>
           /\ WellFormedTime(fields.time)

\* the blocks of the cell at pos that are to give an entry, in order
EmittingBlocks(pos) ==
    IF RowResolved(pos[1]) /\ hasEventClass(CellAt(pos).className)
    THEN SelectSeq(splitBlocks(CellAt(pos).lines, isClashCell(CellAt(pos).className)),
                   Emits)
    ELSE <<>>

\* C14: a block gives an entry only if it has at least 2 lines and its
\* classification found both time and module; every such block with a
\* well-formed time gives exactly one entry, whatever blocks of the same
\* cell, row or page are skipped.
C14_OneEntryPerCompleteBlock ==
    ScrapeCall =>
        /\ \A pos \in Positions :
              LET found == EntriesAt(pos)
                  blocks == EmittingBlocks(pos)
              IN  /\ Len(found) = Len(blocks)
                  /\ \A j \in 1..Len(found) :
                        LET fields == classify(Unclassified, blocks[j])
                        IN  /\ found[j].time = fields.time
                            /\ found[j].module = fields.module
        /\ \A j \in 1..Len(Output) : \E pos \in Positions :
              /\ Output[j].topIdx = pos[1]
              /\ Output[j].slotInDay = IF arg.rows[pos[1]].th THEN pos[2] - 1 ELSE pos[2]

\* a clash cell whose first block has a time that does not parse and whose
\* second block is complete, followed by another cell: both give their entry
C14_Witness ==
    /\ ScrapeCall
    /\ Len(arg.rows) = 1
    /\ Len(arg.rows[1].cells) = 2
    /\ arg.rows[1].cells[1].className = TimeTableClash
    /\ arg.rows[1].cells[1].lines = BadClockBlock \o LecturerBlock
    /\ Len(Output) = 2
    /\ Output[1].time = TenToOne
    /\ Output[1].module = Networks
    /\ Output[2].slotInDay = 1

\* a timestamp <<day, hours, minutes>> before another
Before(t1, t2) ==
    \/ t1[1] < t2[1]
    \/ t1[1] = t2[1] /\ t1[2] < t2[2]
    \/ t1[1] = t2[1] /\ t1[2] = t2[2] /\ t1[3] < t2[3]

\* C15: every entry returned by scrapeRoomTimeTable has its start strictly
\* before its end and its day among the seven canonical weekday names.
C15_StartBeforeEnd ==
    ScrapeCall =>
        \A j \in 1..Len(Output) :
            /\ Before(Output[j].startDateString, Output[j].endDateString)
            /\ Output[j].day \in CanonicalNames

\* C17: getNextOccurrenceOfDay fails with "Invalid day name" for every input
\* that is not a canonical weekday name; scrapeRoomTimeTable never runs into
\* that error, a row whose day text does not resolve gives no entry and every
\* other row gives the entries it gives when alone on the page.
C17_InvalidDayNameNeverTriggered ==
    /\ (/\ ret.called
        /\ arg.fn = "getNextOccurrenceOfDay"
        /\ arg.dayName \notin CanonicalNames) =>
            ret.threw /\ ret.value = "Invalid day name"
    /\ ScrapeCall =>
        /\ ~ret.value.caught
        /\ \A r \in 1..Len(arg.rows) :
              LET found == SelectSeq(Output, LAMBDA e : e.topIdx = r)
                  alone == rowsEntries(<<arg.rows[r]>>, 1, <<>>, arg.roomName, arg.now).output
              IN  IF RowResolved(r)
                  THEN /\ Len(found) = Len(alone)
                       /\ \A j \in 1..Len(found) : found[j] = [alone[j] EXCEPT !.topIdx = r]
                  ELSE found = <<>>

\* a row without a day followed by a Monday row: only the second gives an entry
C17_Witness ==
    /\ ScrapeCall
    /\ Len(arg.rows) = 2
    /\ ~RowResolved(1)
    /\ RowResolved(2)
    /\ ~ret.value.caught
    /\ Len(Output) = 1
    /\ Output[1].topIdx = 2
    /\ Output[1].day = "Monday"

\* C21: the list returned by extractLecturerNames holds no two names that
\* are equal after lowercasing, for every raw field.
C21_NamesDistinctIgnoringCase ==
    NamesCall =>
        \A j1, j2 \in 1..Len(ret.value) :
            toLowerCase(ret.value[j1]) = toLowerCase(ret.value[j2]) => j1 = j2

\* C22: within a run at most one room fetch is outstanding at any time, and
\* while a fetch is outstanding the outcome of every earlier attempt is
\* persisted: no transaction is open, the attempts column of every room
\* counts all its fetches, and a room that is 'success' has its events
C22_OneFetchOutstanding ==
    /\ Cardinality(inflight) <= 1
    /\ inflight # {} =>
          /\ pc = "scrape"
          /\ inflight = {room.room_name}
          /\ conn = dbFile
          /\ \A r \in Rooms :
                /\ HasLogRow(dbFile, r)
                /\ LogRow(dbFile, r).attempts = fetches[r]
                /\ LogRow(dbFile, r).status = "success" =>
                      AttemptKeys(r) \subseteq {EventKey(e) : e \in EventsOf(dbFile, r)}

C22_Witness ==
    /\ inflight = {RoomList[2]}
    /\ fetches[RoomList[1]] = 1
    /\ LogRow(dbFile, RoomList[1]).status = "success"
    /\ EventsOf(dbFile, RoomList[1]) # {}

\* C23: when a fetch is started after an earlier attempt of the run, the run
\* has slept delayMs if the earlier attempt was of the same pass and twice
\* delayMs if it was the last of the pass before; nothing is slept after the
\* final attempt of the run
C23_DelayBetweenAttempts ==
    /\ (pc = "scrape" /\ \E r \in Rooms : fetches[r] > 0) =>
          slept = IF i = 1 THEN 2 ELSE 1
    /\ pc \in {"finish", "done"} => slept = 0

C23_Witness ==
    /\ pc = "scrape"
    /\ pass = 2
    /\ i = 2
    /\ slept = 1

\* C27: for every room whose scrape_log row is 'success', events_found is
\* the number of rows of events of the room, and when a run has ended the
\* total_events metadata value is the number of rows of events
C27_EventsFoundIsRowCount ==
    dbFile # NoFile =>
        /\ \A r \in Rooms :
              (HasLogRow(dbFile, r) /\ LogRow(dbFile, r).status = "success") =>
                  LogRow(dbFile, r).events_found = Cardinality(EventsOf(dbFile, r))
        /\ pc = "done" =>
              \A j \in 1..Len(dbFile.scrape_metadata) :
                  dbFile.scrape_metadata[j].key = "total_events" =>
                      dbFile.scrape_metadata[j].value = Cardinality(dbFile.events)

\* C28: in the committed store a room has rows of events only if its
\* scrape_log row is 'success'
C28_EventsOnlyOfSuccessRooms ==
    dbFile # NoFile =>
        \A r \in Rooms :
            EventsOf(dbFile, r) # {} =>
                (HasLogRow(dbFile, r) /\ LogRow(dbFile, r).status = "success")

\* C29: within one generation of events.db, the events of one weekday name
\* all carry the same calendar date in start_time and in end_time
C29_OneDatePerWeekday ==
    dbFile # NoFile =>
        \A e, f \in dbFile.events :
            e.day = f.day =>
                /\ e.start_time[1] = f.start_time[1]
                /\ e.end_time[1] = f.end_time[1]

\* C26: after any sequence of room ingestions, every row of event_lecturers
\* links an event to a lecturer whose name, compared without regard to
\* letter case, is one of the names extracted from the lecturer_raw of that
\* same event
C26_LinksMatchLecturerRaw ==
    dbFile # NoFile =>
        \A x \in dbFile.event_lecturers :
            \E e \in dbFile.events, l \in dbFile.lecturers :
                /\ e.id = x.event_id
                /\ l.id = x.lecturer_id
                /\ \E n \in 1..Len(extracted[e.lecturer_raw]) :
                       toLowerCase(extracted[e.lecturer_raw][n]) = l.name_lower

ClassifyCall == ret.called /\ arg.fn = "classify"

\* the positions of the lines of the call's group that match the module-code
\* pattern, and the first of them
ModuleCodeLines == {j \in 1..Len(arg.lines) : modulePattern(arg.lines[j])}
FirstModuleCodeLine == CHOOSE j \in ModuleCodeLines : \A o \in ModuleCodeLines : j <= o

\* C25, as stated: when some line of the group matches the module-code
\* pattern, the module field is the first such line, whatever precedes it
C25_FirstModuleCodeLineIsModule ==
    (ClassifyCall /\ ModuleCodeLines # {}) =>
        ret.value.module = arg.lines[FirstModuleCodeLine]

\* the field whose pattern a line matches, "none" when no pattern matches
KindOf(line) ==
    IF timePattern(line) THEN "time"
    ELSE IF cohortMatch(line) THEN "groupCohort"
    ELSE IF sessionKeywordPattern(line) \/ sessionPlacePattern(line) THEN "sessionType"
    ELSE IF lecturerPattern(line) THEN "lecturer"
    ELSE "none"

\* the lines before the first module-code line that no field takes: those no
\* pattern matches and those that are not the first line of their kind
LeftOver ==
    {j \in 1..(FirstModuleCodeLine - 1) :
        \/ KindOf(arg.lines[j]) = "none"
        \/ \E o \in 1..(j - 1) : KindOf(arg.lines[o]) = KindOf(arg.lines[j])}

\* C25, amended: when some line of the group matches the module-code
\* pattern, the module field is the first such line if every line before it
\* is taken by another field; otherwise it is the first line before it that
\* no field takes, and the module-code line is not used
C25_ModuleCodeLineUnlessFallback ==
    (ClassifyCall /\ ModuleCodeLines # {}) =>
        ret.value.module =
            IF LeftOver = {} THEN arg.lines[FirstModuleCodeLine]
            ELSE arg.lines[CHOOSE j \in LeftOver : \A o \in LeftOver : j <= o]

C25_Witness ==
    /\ ClassifyCall
    /\ arg.lines = <<NineToTen, KingJohn, SoftwareDevelopment, Programming>>
    /\ ret.value.module = SoftwareDevelopment

\* the rebuilds in flight
Running == {b \in 1..Len(builds) : builds[b] = "running"}

\* a request has called getLecturerCache while a rebuild was in flight
ArrivedDuringBuild(q) ==
    requests[q].state # "none" /\ requests[q].arrivedDuring # 0

\* what a request that awaits rebuild b receives once b has settled
OutcomeOf(b) == IF builds[b] = "ok" THEN CacheOf(b) ELSE BuildError

\* a request receives the result of the rebuild that was in flight when it
\* called: it awaits that rebuild, and is answered with its outcome
SharesBuild(q) ==
    /\ requests[q].awaits = requests[q].arrivedDuring
    /\ requests[q].state = "done" => requests[q].result = OutcomeOf(requests[q].awaits)

\* C24, as stated: every caller that arrives while a rebuild is in flight,
\* with or without forceRefresh, receives the result of that same rebuild
C24_EveryCallerSharesBuild ==
    \A q \in 1..MaxRequests : ArrivedDuringBuild(q) => SharesBuild(q)

\* C24, amended: at most one rebuild is in flight, and it is the one stored
\* in inflightBuild; a caller that arrives while a rebuild is in flight and
\* is not served from a fresh stored cache (it asks for a refresh, or no
\* cache is stored, or the stored one has expired) receives the result of
\* that same rebuild, and a caller without forceRefresh that finds a fresh
\* stored cache receives the stored cache; a rebuild starts only when none is
\* in flight; a rebuild that fails clears the in-flight marker and leaves
\* the stored cache as it was
C24_OneRebuildInFlight ==
    [][ /\ Cardinality(Running') <= 1
        /\ Running' = IF inflightBuild' = 0 THEN {} ELSE {inflightBuild'}
        /\ \A q \in 1..MaxRequests :
              ArrivedDuringBuild(q)' =>
                  IF requests'[q].forceRefresh \/ ~requests'[q].fresh
                  THEN SharesBuild(q)'
                  ELSE requests'[q].state = "done" /\ requests'[q].awaits = 0
        /\ Len(builds') > Len(builds) => Running = {}
        /\ (\E b \in 1..Len(builds) : builds[b] = "running" /\ builds'[b] = "failed") =>
              /\ inflightBuild' = 0
              /\ lecturerCache' = lecturerCache ]_vars

C24_Witness ==
    /\ requests[1].state = "done"
    /\ requests[1].awaits = 1
    /\ ArrivedDuringBuild(2)
    /\ requests[2].forceRefresh
    /\ requests[2].state = "done"
    /\ requests[2].result = CacheOf(1)
    /\ ArrivedDuringBuild(3)
    /\ ~requests[3].forceRefresh
    /\ requests[3].state = "done"
    /\ requests[3].result = CacheOf(1)
    /\ Len(builds) = 1

\* C30: through POST /force-scrape and triggerScrape at most one runScrape
\* is active; a trigger that arrives while a run is active starts no run and
\* answers 409 or skips; whenever the status is 'running' the flag is set;
\* and when the end of a run has been handled the flag is cleared and the
\* status is 'completed' if the run returned and 'failed' if it threw
C30_OneRunAtATime ==
    /\ triggerLog.unsettled <= 1
    /\ pc \notin {"idle", "done"} => (triggerLog.unsettled = 1 /\ isScraping)
    /\ triggerLog.during =>
          (~triggerLog.started /\ triggerLog.response \in {"409", "skipped"})
    /\ lastScrapeStatus.status = "running" => isScraping
    /\ awaitedBy = "none" =>
          /\ ~isScraping
          /\ triggerLog.unsettled = 0
          /\ lastScrapeStatus.status \in {"idle", "completed", "failed"}
          /\ lastScrapeStatus.status = "completed" => pc = "done"
          /\ lastScrapeStatus.status = "failed" => pc = "idle"

C30_Witness ==
    /\ lastScrapeStatus.status = "failed"
    /\ ~isScraping
    /\ triggerLog.during
    /\ triggerLog.response = "409"
    /\ runsLeft = 0

====
